---- MODULE Spec2Model ----
(***************************************************************************)
(* Model of the S-parameter compliance engine of the Macallan RF           *)
(* performance tool: SParameterCalculator (frequency windowing and RF      *)
(* metrics), Device (port roles), TestCriteria (validation and pass/fail   *)
(* predicate) and SParametersTestType (criterion fan-out).                 *)
(*                                                                         *)
(* Numbers.  Python floats are modelled by integers in fixed units:        *)
(*   - frequencies handed to the engine are whole GHz; the network's       *)
(*     frequency axis is in "Hz" ticks, HzPerGHz ticks per GHz;            *)
(*   - an S-matrix entry m stands for the real value m / UnitMag;          *)
(*   - gains, flatness, rejections are in tenths of a dB, VSWR in tenths;  *)
(*   - criterion bounds are in the same tenths.                            *)
(* Strings are sequences of one-character strings, Optional[x] is the      *)
(* empty tuple (None) or a one-element tuple <<x>>.                        *)
(***************************************************************************)
EXTENDS Integers, Sequences, FiniteSets, TLC

VARIABLES
    measurement,   \* Measurement: id and touchstone_data (Optional network)
    device,        \* Device: input_ports, output_ports, operational band
    call,          \* arguments of the last evaluate_compliance call
    results,       \* list returned by the last evaluate_compliance call
    raised,        \* exception that escaped the last call ("none" if none)
    evalCount,     \* number of evaluate_compliance calls made so far
    crit,          \* Optional TestCriteria: last instance constructed
    ctorArgs,      \* arguments of the last TestCriteria(...) construction
    ctorError,     \* exception raised by the last construction
    evalArg,       \* Optional value last handed to TestCriteria.evaluate
    evalOut,       \* Optional boolean returned by that evaluate call
    op,            \* Optional record: the pure function applied last, with
                   \* its arguments
    ret,           \* what that application returned
    criteriaRows,  \* test_criteria table: criterion id -> stored row
    resultRows,    \* test_results table: rows in insertion order
    resultRepo     \* TRUE when DeviceService was given a result repository

engineVars == <<measurement, device, call, results, raised, evalCount>>

criteriaVars == <<crit, ctorArgs, ctorError, evalArg, evalOut>>

fnVars == <<op, ret>>

serviceVars == <<criteriaRows, resultRows, resultRepo>>

vars == <<engineVars, criteriaVars, fnVars, serviceVars>>

----------------------------------------------------------------------------
(* Bounds of the model *)

MaxPorts == 3          \* largest port count of a network
MaxPortList == 2       \* longest input_ports / output_ports list
MaxEvals == 1          \* evaluate_compliance calls per behaviour
MaxDevicePorts == 4    \* largest port number of a Device examined alone

----------------------------------------------------------------------------
(* Optional values and generic helpers *)

None == <<>>

Some(x) == <<x>>

IsNone(o) == o = <<>>

Val(o) == o[1]

Range(s) == {s[i] : i \in 1..Len(s)}

SeqsUpTo(S, n) == {s : s \in UNION {[1..k -> S] : k \in 1..n}}

Min2(a, b) == IF a <= b THEN a ELSE b

Max2(a, b) == IF a >= b THEN a ELSE b

MinOfSeq(s) == CHOOSE x \in Range(s) : \A y \in Range(s) : x <= y

MaxOfSeq(s) == CHOOSE x \in Range(s) : \A y \in Range(s) : x >= y

----------------------------------------------------------------------------
(* Strings: str.lower(), the `in` substring test, str ordering *)

UpperChars == <<"A","B","C","D","E","F","G","H","I","J","K","L","M",
                "N","O","P","Q","R","S","T","U","V","W","X","Y","Z">>

LowerChars == <<"a","b","c","d","e","f","g","h","i","j","k","l","m",
                "n","o","p","q","r","s","t","u","v","w","x","y","z">>

DigitChars == <<"0","1","2","3","4","5","6","7","8","9">>

LowerChar(c) ==
    IF \E i \in 1..26 : UpperChars[i] = c
    THEN LowerChars[CHOOSE i \in 1..26 : UpperChars[i] = c]
    ELSE c

Lower(s) == [i \in 1..Len(s) |-> LowerChar(s[i])]

Contains(hay, needle) ==
    \E i \in 1..(Len(hay) - Len(needle) + 1) :
        SubSeq(hay, i, i + Len(needle) - 1) = needle

\* code point order restricted to the characters a label can hold
CharCode(c) ==
    IF \E i \in 1..10 : DigitChars[i] = c
    THEN 47 + (CHOOSE i \in 1..10 : DigitChars[i] = c)
    ELSE IF \E i \in 1..26 : UpperChars[i] = c
    THEN 64 + (CHOOSE i \in 1..26 : UpperChars[i] = c)
    ELSE 96 + (CHOOSE i \in 1..26 : LowerChars[i] = c)

RECURSIVE StrLess(_, _)
StrLess(a, b) ==
    IF a = <<>> THEN b # <<>>
    ELSE IF b = <<>> THEN FALSE
    ELSE IF Head(a) = Head(b) THEN StrLess(Tail(a), Tail(b))
    ELSE CharCode(Head(a)) < CharCode(Head(b))

RECURSIVE InsertSorted(_, _)
InsertSorted(x, s) ==
    IF s = <<>> THEN <<x>>
    ELSE IF StrLess(x, Head(s)) THEN <<x>> \o s
    ELSE <<Head(s)>> \o InsertSorted(x, Tail(s))

\* Python sorted() on a list of str (stable; equal strings are identical)
RECURSIVE Sorted(_)
Sorted(s) ==
    IF s = <<>> THEN <<>> ELSE InsertSorted(Head(s), Sorted(Tail(s)))

\* str(n) for a non-negative integer
RECURSIVE IntToStr(_)
IntToStr(n) ==
    IF n < 10 THEN <<DigitChars[n + 1]>>
    ELSE IntToStr(n \div 10) \o <<DigitChars[(n % 10) + 1]>>

IsDigit(c) == \E i \in 1..10 : DigitChars[i] = c

DigitVal(c) == (CHOOSE i \in 1..10 : DigitChars[i] = c) - 1

\* f"S{a}{b}"
SLabel(a, b) == <<"S">> \o IntToStr(a) \o IntToStr(b)

----------------------------------------------------------------------------
(* Device: port configuration *)

validate_port_configuration(ins, outs) ==
    /\ Range(ins) \cap Range(outs) = {}
    /\ \A p \in Range(ins) \cup Range(outs) : p >= 1
    /\ ins # <<>>
    /\ outs # <<>>

\* variant: the label is written S{in}{out}
RECURSIVE GainLoop_SwappedLabel(_, _, _, _, _)
GainLoop_SwappedLabel(ins, outs, i, j, n_ports) ==
    IF i > Len(ins) THEN <<>>
    ELSE IF j > Len(outs)
    THEN GainLoop_SwappedLabel(ins, outs, i + 1, 1, n_ports)
    ELSE (IF ins[i] <= n_ports /\ outs[j] <= n_ports
          THEN <<SLabel(ins[i], outs[j])>> ELSE <<>>)
         \o GainLoop_SwappedLabel(ins, outs, i, j + 1, n_ports)

\* the nested loop of get_gain_s_parameters, before sorting
RECURSIVE GainLoop(_, _, _, _, _)
GainLoop(ins, outs, i, j, n_ports) ==
    IF i > Len(ins) THEN <<>>
    ELSE IF j > Len(outs) THEN GainLoop(ins, outs, i + 1, 1, n_ports)
    ELSE (IF ins[i] <= n_ports /\ outs[j] <= n_ports
          THEN <<SLabel(outs[j], ins[i])>> ELSE <<>>)
         \o GainLoop(ins, outs, i, j + 1, n_ports)

\* variant: the list is returned in loop order, without sorted()
get_gain_s_parameters_Unsorted(dev, n_ports) ==
    GainLoop(dev.input_ports, dev.output_ports, 1, 1, n_ports)

get_gain_s_parameters(dev, n_ports) ==
    Sorted(GainLoop(dev.input_ports, dev.output_ports, 1, 1, n_ports))

\* sorted(set(input_ports + output_ports)): ascending integers
RECURSIVE SortedInts(_)
SortedInts(S) ==
    IF S = {} THEN <<>>
    ELSE LET m == CHOOSE x \in S : \A y \in S : x <= y
         IN <<m>> \o SortedInts(S \ {m})

get_all_ports(dev) ==
    SortedInts(Range(dev.input_ports) \cup Range(dev.output_ports))

\* variant: only the input ports are reported
get_vswr_s_parameters_InputsOnly(dev, n_ports) ==
    LET all_ports == SortedInts(Range(dev.input_ports))
        kept == SelectSeq(all_ports, LAMBDA p : p <= n_ports)
    IN Sorted([i \in 1..Len(kept) |-> SLabel(kept[i], kept[i])])

get_vswr_s_parameters(dev, n_ports) ==
    LET all_ports == get_all_ports(dev)
        kept == SelectSeq(all_ports, LAMBDA p : p <= n_ports)
    IN Sorted([i \in 1..Len(kept) |-> SLabel(kept[i], kept[i])])

----------------------------------------------------------------------------
(* TestCriteria: construction-time validation and the pass/fail predicate *)

AllowedCriteriaTypes ==
    {"range", "min", "max", "less_than_equal", "greater_than_equal"}

\* @field_validator("criteria_type"): TRUE when the value is accepted
validate_criteria_type(v) == v \in AllowedCriteriaTypes

\* variant: a range with min_value = max_value is accepted
validate_criteria_values_AllowsEqual(a) ==
    /\ IF a.criteria_type = "range"
       THEN /\ ~(IsNone(a.min_value) \/ IsNone(a.max_value))
            /\ ~(Val(a.min_value) > Val(a.max_value))
       ELSE IF a.criteria_type \in {"min", "greater_than_equal"}
       THEN /\ ~IsNone(a.min_value)
            /\ IsNone(a.max_value)
       ELSE IF a.criteria_type \in {"max", "less_than_equal"}
       THEN /\ ~IsNone(a.max_value)
            /\ IsNone(a.min_value)
       ELSE TRUE
    /\ IF ~IsNone(a.frequency_min) \/ ~IsNone(a.frequency_max)
       THEN /\ ~(IsNone(a.frequency_min) \/ IsNone(a.frequency_max))
            /\ ~(Val(a.frequency_min) >= Val(a.frequency_max))
       ELSE TRUE

\* @model_validator(mode="after"): TRUE when no TestCriteriaError is raised
validate_criteria_values(a) ==
    /\ IF a.criteria_type = "range"
       THEN /\ ~(IsNone(a.min_value) \/ IsNone(a.max_value))
            /\ ~(Val(a.min_value) >= Val(a.max_value))
       ELSE IF a.criteria_type \in {"min", "greater_than_equal"}
       THEN /\ ~IsNone(a.min_value)
            /\ IsNone(a.max_value)
       ELSE IF a.criteria_type \in {"max", "less_than_equal"}
       THEN /\ ~IsNone(a.max_value)
            /\ IsNone(a.min_value)
       ELSE TRUE
    /\ IF ~IsNone(a.frequency_min) \/ ~IsNone(a.frequency_max)
       THEN /\ ~(IsNone(a.frequency_min) \/ IsNone(a.frequency_max))
            /\ ~(Val(a.frequency_min) >= Val(a.frequency_max))
       ELSE TRUE

\* TestCriteria(**a): the field validator runs first, then the model
\* validator; the exception either of them raises leaves the constructor
ConstructError(a) ==
    IF ~validate_criteria_type(a.criteria_type) THEN "TestCriteriaError"
    ELSE IF ~validate_criteria_values(a) THEN "TestCriteriaError"
    ELSE "none"

\* variant: the upper bound of a range is exclusive
evaluate_StrictUpper(c, value) ==
    CASE c.criteria_type = "range" ->
            Val(c.min_value) <= value /\ value < Val(c.max_value)
      [] c.criteria_type \in {"min", "greater_than_equal"} ->
            value >= Val(c.min_value)
      [] c.criteria_type \in {"max", "less_than_equal"} ->
            value <= Val(c.max_value)

\* TestCriteria.evaluate; an unknown criteria_type raises (no branch)
evaluate(c, value) ==
    CASE c.criteria_type = "range" ->
            Val(c.min_value) <= value /\ value <= Val(c.max_value)
      [] c.criteria_type \in {"min", "greater_than_equal"} ->
            value >= Val(c.min_value)
      [] c.criteria_type \in {"max", "less_than_equal"} ->
            value <= Val(c.max_value)

----------------------------------------------------------------------------
(* Network data and SParameterCalculator *)

HzPerGHz == 2      \* GHz -> Hz factor, in the model's frequency ticks

UnitMag == 16      \* the S-matrix entry that stands for magnitude 1.0

\* network.s_db for entry m: round(200 * log10(m / UnitMag)), m in 1..64
DbTable ==
    <<-241, -181, -145, -120, -101, -85, -72, -60, -50, -41, -33, -25, -18,
      -12, -6, 0, 5, 10, 15, 19, 24, 28, 32, 35, 39, 42, 45, 49, 52, 55, 57,
      60, 63, 65, 68, 70, 73, 75, 77, 80, 82, 84, 86, 88, 90, 92, 94, 95,
      97, 99, 101, 102, 104, 106, 107, 109, 110, 112, 113, 115, 116, 118,
      119, 120>>

s_db(m) == DbTable[m]

\* network.s_vswr for a diagonal entry m: (1 + |s|) / (1 - |s|), in tenths
s_vswr(m) == (10 * (UnitMag + m)) \div (UnitMag - m)

Ok(v) == [tag |-> "ok", val |-> v]

Err(e) == [tag |-> e, val |-> <<>>]

\* np.clip(x, lo, hi)
Clip(x, lo, hi) == Min2(Max2(x, lo), hi)

\* linear interpolation of one S-matrix entry at frequency t
InterpEntry(net, t, o, j) ==
    IF \E i \in 1..Len(net.f) : net.f[i] = t
    THEN net.s[CHOOSE i \in 1..Len(net.f) : net.f[i] = t][o][j]
    ELSE LET i == CHOOSE k \in 1..(Len(net.f) - 1) :
                      net.f[k] < t /\ t < net.f[k + 1]
             f0 == net.f[i]
             f1 == net.f[i + 1]
             s0 == net.s[i][o][j]
             s1 == net.s[i + 1][o][j]
         IN (s0 * (f1 - t) + s1 * (t - f0)) \div (f1 - f0)

\* network.interpolate(targets)
Interpolate(net, targets) ==
    [nports |-> net.nports,
     f |-> targets,
     s |-> [k \in 1..Len(targets) |->
              [o \in 1..net.nports |->
                 [j \in 1..net.nports |->
                    InterpEntry(net, targets[k], o, j)]]]]

\* variant: the mask leaves out the points at the bounds
MaskNetwork_Strict(net, lo, hi) ==
    LET keep == SelectSeq([i \in 1..Len(net.f) |-> i],
                          LAMBDA i : net.f[i] > lo /\ net.f[i] < hi)
    IN [nports |-> net.nports,
        f |-> [k \in 1..Len(keep) |-> net.f[keep[k]]],
        s |-> [k \in 1..Len(keep) |-> net.s[keep[k]]]]

\* network[mask]: keep the points whose frequency satisfies the mask
MaskNetwork(net, lo, hi) ==
    LET keep == SelectSeq([i \in 1..Len(net.f) |-> i],
                          LAMBDA i : net.f[i] >= lo /\ net.f[i] <= hi)
    IN [nports |-> net.nports,
        f |-> [k \in 1..Len(keep) |-> net.f[keep[k]]],
        s |-> [k \in 1..Len(keep) |-> net.s[keep[k]]]]

\* variant: the clipped bounds are not added to the interior samples
FilterWindow_InteriorOnly(net, target_min, target_max) ==
    MaskNetwork(
        Interpolate(net,
            SortedInts({x \in Range(net.f) : x >= target_min /\ x <= target_max})),
        target_min, target_max)

\* the part of filter_frequency_range after the targets are clipped
FilterWindow(net, target_min, target_max) ==
    MaskNetwork(
        Interpolate(net,
            SortedInts({x \in Range(net.f) : x >= target_min /\ x <= target_max}
                       \cup {target_min, target_max})),
        target_min, target_max)

\* variant: the samples between the bounds, without clipping the bounds to
\* the measured span
FilterOrdered_Unclipped(net, freq_min_hz, freq_max_hz) ==
    MaskNetwork(net, freq_min_hz, freq_max_hz)

\* the bounds are converted to Hz, put in order and clipped to the measured
\* span; a network without points is returned as a copy
FilterOrdered(net, freq_min_hz, freq_max_hz) ==
    IF Len(net.f) = 0 THEN net
    ELSE FilterWindow(net,
             Clip(freq_min_hz, MinOfSeq(net.f), MaxOfSeq(net.f)),
             Clip(freq_max_hz, MinOfSeq(net.f), MaxOfSeq(net.f)))

\* variant: the bounds are used in the order given
filter_frequency_range_AsGiven(net, freq_min, freq_max) ==
    FilterOrdered(net, freq_min * HzPerGHz, freq_max * HzPerGHz)

filter_frequency_range(net, freq_min, freq_max) ==
    FilterOrdered(net,
        Min2(freq_min * HzPerGHz, freq_max * HzPerGHz),
        Max2(freq_min * HzPerGHz, freq_max * HzPerGHz))

\* numpy index of a 0-based position along an axis of length n:
\* negative positions count from the end, anything else is an IndexError
AxisIndexOk(idx, n) == idx >= -n /\ idx <= n - 1

AxisIndex(idx, n) == IF idx < 0 THEN idx + n + 1 ELSE idx + 1

\* network.s_db[:, output_port, input_port]
GainColumn(net, output_port, input_port) ==
    IF ~(AxisIndexOk(output_port, net.nports)
         /\ AxisIndexOk(input_port, net.nports))
    THEN Err("IndexError")
    ELSE Ok([i \in 1..Len(net.f) |->
               s_db(net.s[i][AxisIndex(output_port, net.nports)]
                             [AxisIndex(input_port, net.nports)])])

calculate_gain(net, s_param) ==
    IF ~(/\ Len(s_param) >= 3
         /\ s_param[1] = "S"
         /\ IsDigit(s_param[2])
         /\ IsDigit(s_param[3]))
    THEN Err("ValueError")
    ELSE GainColumn(net, DigitVal(s_param[2]) - 1, DigitVal(s_param[3]) - 1)

\* (np.min(gain_db), np.max(gain_db)); np.min of an empty array raises
GainRangeOf(gain_db) ==
    IF gain_db.tag # "ok" THEN gain_db
    ELSE IF gain_db.val = <<>> THEN Err("ValueError")
    ELSE Ok(<<MinOfSeq(gain_db.val), MaxOfSeq(gain_db.val)>>)

calculate_gain_range(net, freq_min, freq_max, s_param) ==
    GainRangeOf(calculate_gain(
        filter_frequency_range(net, freq_min, freq_max), s_param))

\* variant: min_gain - max_gain
FlatnessOf_Reversed(r) == IF r.tag # "ok" THEN r ELSE Ok(r.val[1] - r.val[2])

\* max_gain - min_gain
FlatnessOf(r) == IF r.tag # "ok" THEN r ELSE Ok(r.val[2] - r.val[1])

calculate_flatness(net, freq_min, freq_max, s_param) ==
    FlatnessOf(calculate_gain_range(net, freq_min, freq_max, s_param))

\* min_gain
LowestOf(r) == IF r.tag # "ok" THEN r ELSE Ok(r.val[1])

calculate_lowest_in_band_gain(net, freq_min, freq_max, s_param) ==
    LowestOf(calculate_gain_range(net, freq_min, freq_max, s_param))

\* variant: the largest rejection of the window is returned
WorstRejection_Best(lowest_in_band, gain_at_oob) ==
    IF lowest_in_band.tag # "ok" THEN lowest_in_band
    ELSE IF gain_at_oob.tag # "ok" THEN gain_at_oob
    ELSE IF gain_at_oob.val = <<>> THEN Err("ValueError")
    ELSE Ok(MaxOfSeq([i \in 1..Len(gain_at_oob.val) |->
                         lowest_in_band.val - gain_at_oob.val[i]]))

\* rejections_dbc = lowest_in_band - gain_at_oob; np.min(rejections_dbc)
WorstRejection(lowest_in_band, gain_at_oob) ==
    IF lowest_in_band.tag # "ok" THEN lowest_in_band
    ELSE IF gain_at_oob.tag # "ok" THEN gain_at_oob
    ELSE IF gain_at_oob.val = <<>> THEN Err("ValueError")
    ELSE Ok(MinOfSeq([i \in 1..Len(gain_at_oob.val) |->
                         lowest_in_band.val - gain_at_oob.val[i]]))

calculate_oob_rejection(net, oob_freq_min, oob_freq_max, operational_freq_min, operational_freq_max, s_param) ==
    WorstRejection(
        calculate_lowest_in_band_gain(net, operational_freq_min,
                                      operational_freq_max, s_param),
        calculate_gain(
            filter_frequency_range(net, oob_freq_min, oob_freq_max), s_param))

\* variant: the smallest VSWR of the window is returned
WorstVswr_Best(filtered, port_idx) ==
    IF ~AxisIndexOk(port_idx, filtered.nports) THEN Err("ValueError")
    ELSE IF filtered.f = <<>> THEN Err("ValueError")
    ELSE Ok(MinOfSeq([i \in 1..Len(filtered.f) |->
               s_vswr(filtered.s[i][AxisIndex(port_idx, filtered.nports)]
                                   [AxisIndex(port_idx, filtered.nports)])]))

\* calculate_vswr with both freq_min and freq_max supplied
\* float(np.max(filtered.s_vswr[:, port_idx, port_idx])); an index outside
\* the axis is re-raised as ValueError, np.max of an empty array raises
WorstVswr(filtered, port_idx) ==
    IF ~AxisIndexOk(port_idx, filtered.nports) THEN Err("ValueError")
    ELSE IF filtered.f = <<>> THEN Err("ValueError")
    ELSE Ok(MaxOfSeq([i \in 1..Len(filtered.f) |->
               s_vswr(filtered.s[i][AxisIndex(port_idx, filtered.nports)]
                                   [AxisIndex(port_idx, filtered.nports)])]))

\* calculate_vswr with both freq_min and freq_max supplied
calculate_vswr(net, port, freq_min, freq_max) ==
    WorstVswr(filter_frequency_range(net, freq_min, freq_max), port - 1)

\* filtered.s_vswr[:, port_idx, port_idx], returned as it is when a bound is
\* missing
VswrArray(filtered, port_idx) ==
    IF ~AxisIndexOk(port_idx, filtered.nports) THEN Err("ValueError")
    ELSE Ok([i \in 1..Len(filtered.f) |->
               s_vswr(filtered.s[i][AxisIndex(port_idx, filtered.nports)]
                                   [AxisIndex(port_idx, filtered.nports)])])

\* calculate_vswr with freq_min and freq_max optional: the network is
\* windowed and reduced to its maximum only when both bounds are supplied
calculate_vswr_optional(net, port, freq_min, freq_max) ==
    IF ~IsNone(freq_min) /\ ~IsNone(freq_max)
    THEN calculate_vswr(net, port, Val(freq_min), Val(freq_max))
    ELSE VswrArray(net, port - 1)

----------------------------------------------------------------------------
(* Inputs *)

\* frequency axes (Hz ticks, strictly increasing); the empty axis is a
\* network without data points
Grids == {<<>>, <<2, 6, 10>>, <<3, 4, 8, 12>>}

Profiles == {0, 1}

\* S-matrix entries: reflections (diagonal) below UnitMag, transmissions
\* between UnitMag / 2 and 2 * UnitMag, all non-zero
Entry(k, i, o, j) ==
    IF o = j THEN 4 * (1 + ((k + i + o) % 3))
    ELSE 4 * (2 + ((3 * k + 2 * i + o + 3 * j) % 7))

MakeNetwork(n, grid, k) ==
    [nports |-> n,
     f |-> grid,
     s |-> [i \in 1..Len(grid) |->
              [o \in 1..n |-> [j \in 1..n |-> Entry(k, i, o, j)]]]]

Networks ==
    {MakeNetwork(n, g, k) : n \in 1..MaxPorts, g \in Grids, k \in Profiles}

MeasurementId == 1

Measurements ==
    {[id |-> MeasurementId, touchstone_data |-> Some(net)] : net \in Networks}
    \cup {[id |-> MeasurementId, touchstone_data |-> None]}

PortLists == SeqsUpTo(1..MaxPorts, MaxPortList)

\* Device(...) instances: those that pass validate_port_configuration
Devices ==
    {[input_ports |-> p[1], output_ports |-> p[2]] :
        p \in {q \in PortLists \X PortLists :
                  validate_port_configuration(q[1], q[2])}}

\* operational band handed to evaluate_compliance, in GHz
OpBands == {<<1, 2>>, <<2, 4>>}

NameGainRange == <<"G","a","i","n"," ","R","a","n","g","e">>

NameFlatness == <<"F","l","a","t","n","e","s","s">>

NameVswrMax == <<"V","S","W","R"," ","M","a","x">>

NameOob == <<"O","O","B"," ","1">>

NameMixed == <<"R","A","N","G","E"," ","v","s","w","r"," ","g","a","i","n">>

Names == {NameGainRange, NameFlatness, NameVswrMax, NameOob, NameMixed}

CriteriaTypeInputs == AllowedCriteriaTypes \cup {"between"}

\* constructor arguments tried by the construction action
CtorArgs ==
    [requirement_name : {NameOob},
     criteria_type : CriteriaTypeInputs,
     min_value : {None, Some(0), Some(20), Some(60)},
     max_value : {None, Some(20), Some(60)},
     frequency_min : {None, Some(3), Some(5)},
     frequency_max : {None, Some(3), Some(5)}]

\* constructor arguments of the criteria handed to the engine
EngineArgs ==
    [requirement_name : Names,
     criteria_type : AllowedCriteriaTypes,
     min_value : {None, Some(0), Some(20)},
     max_value : {None, Some(60)},
     frequency_min : {None, Some(3), Some(6)},
     frequency_max : {None, Some(5), Some(7)}]

EngineCriteria == {a \in EngineArgs : ConstructError(a) = "none"}

\* criteria used in the two-element lists
PairCriteria ==
    {a \in EngineCriteria :
        /\ a.criteria_type \in {"range", "max"}
        /\ a.min_value \in {None, Some(20)}
        /\ a.frequency_min \in {None, Some(3)}
        /\ a.frequency_max \in {None, Some(5)}}

\* the instance built from accepted arguments; id stands for the uuid
Instance(a, id) ==
    [id |-> id,
     requirement_name |-> a.requirement_name,
     criteria_type |-> a.criteria_type,
     min_value |-> a.min_value,
     max_value |-> a.max_value,
     frequency_min |-> a.frequency_min,
     frequency_max |-> a.frequency_max]

\* one criterion per requirement name, with and without a band
FanCriteria ==
    {a \in EngineCriteria :
        /\ a.criteria_type = "max"
        /\ a.frequency_min = (IF a.requirement_name = NameOob
                              THEN Some(3) ELSE None)
        /\ a.frequency_max = (IF a.requirement_name = NameOob
                              THEN Some(5) ELSE None)}

\* one measurement per port count, on the three-point grid
FanMeasurements ==
    {[id |-> MeasurementId,
      touchstone_data |-> Some(MakeNetwork(n, <<2, 6, 10>>, 0))] :
        n \in 1..MaxPorts}

\* the device with input port 1 and output port 2
PairDevices ==
    {[input_ports |-> <<1>>, output_ports |-> <<2>>]} \cap Devices

----------------------------------------------------------------------------
(* SParametersTestType *)

\* calculate_metrics for a measurement that has touchstone data.  The two
\* loops store, for every label S{out}{in} (out, in in 1..nports) whose
\* calculation does not raise ValueError or IndexError, the entries
\* "<label> Gain Range", "<label> Flatness", "<label> Lowest In-Band Gain",
\* and for every port the entry "S{port}{port} VSWR".  A key is modelled as
\* the pair <<label, metric name>>.

\* what one pass of the try block over a label stores, given the outcomes
\* of its three calculations: the assignments made before the first raise
LabelEntries(s_param, gain_range, flatness, lowest_gain) ==
    IF gain_range.tag # "ok" THEN {}
    ELSE {<<<<s_param, "Gain Range">>,
            [min |-> gain_range.val[1], max |-> gain_range.val[2]]>>}
         \cup (IF flatness.tag # "ok" THEN {}
               ELSE {<<<<s_param, "Flatness">>, flatness.val>>}
                    \cup (IF lowest_gain.tag # "ok" THEN {}
                          ELSE {<<<<s_param, "Lowest In-Band Gain">>,
                                  lowest_gain.val>>}))

\* what one pass of the VSWR try block stores
VswrEntries(s_param, vswr) ==
    IF vswr.tag # "ok" THEN {} ELSE {<<<<s_param, "VSWR">>, vswr.val>>}

\* the dict holding the stored <<key, value>> entries (keys are distinct)
DictOf(entries) ==
    [key \in {e[1] : e \in entries} |->
        (CHOOSE e \in entries : e[1] = key)[2]]

calculate_metrics(net, operational_freq_min, operational_freq_max) ==
    DictOf(
        UNION {LabelEntries(SLabel(out_port, in_port),
                   calculate_gain_range(net, operational_freq_min,
                       operational_freq_max, SLabel(out_port, in_port)),
                   calculate_flatness(net, operational_freq_min,
                       operational_freq_max, SLabel(out_port, in_port)),
                   calculate_lowest_in_band_gain(net, operational_freq_min,
                       operational_freq_max, SLabel(out_port, in_port))) :
               out_port \in 1..net.nports, in_port \in 1..net.nports}
        \cup
        UNION {VswrEntries(SLabel(port, port),
                   calculate_vswr(net, port, operational_freq_min,
                                  operational_freq_max)) :
               port \in 1..net.nports})

\* calculate_metrics tabulated over the inputs of the model (the function is
\* pure; the table only spares recomputing it in every state)
MetricsMemo ==
    [net \in Networks, band \in OpBands |->
        calculate_metrics(net, band[1], band[2])]

Metrics(net, fmin, fmax) == MetricsMemo[net, <<fmin, fmax>>]

\* calculate_oob_rejection tabulated in the same way
OobBands ==
    {<<Val(a.frequency_min), Val(a.frequency_max)>> :
        a \in {x \in EngineCriteria : ~IsNone(x.frequency_min)}}

MemoLabels == {SLabel(o, j) : o, j \in 1..MaxPorts}

OobMemo ==
    [net \in Networks, oob \in OobBands, band \in OpBands, l \in MemoLabels |->
        calculate_oob_rejection(net, oob[1], oob[2], band[1], band[2], l)]

OobRejection(net, oob_min, oob_max, fmin, fmax, s_param) ==
    OobMemo[net, <<oob_min, oob_max>>, <<fmin, fmax>>, s_param]

\* variant: the label is not handed to the result, which keeps the field
\* default None
TestResult_NoLabel(id, measurement_id, test_criteria_id, measured_value, passed, s_parameter) ==
    [id |-> id,
     measurement_id |-> measurement_id,
     test_criteria_id |-> test_criteria_id,
     measured_value |-> Some(measured_value),
     passed |-> passed,
     s_parameter |-> None,
     is_stale |-> FALSE]

\* variant: results are created stale
TestResult_Stale(id, measurement_id, test_criteria_id, measured_value, passed, s_parameter) ==
    [id |-> id,
     measurement_id |-> measurement_id,
     test_criteria_id |-> test_criteria_id,
     measured_value |-> Some(measured_value),
     passed |-> passed,
     s_parameter |-> Some(s_parameter),
     is_stale |-> TRUE]

\* TestResult(...) as the engine builds it: id is passed in, is_stale is
\* left to its field default
TestResult(id, measurement_id, test_criteria_id, measured_value, passed, s_parameter) ==
    [id |-> id,
     measurement_id |-> measurement_id,
     test_criteria_id |-> test_criteria_id,
     measured_value |-> Some(measured_value),
     passed |-> passed,
     s_parameter |-> Some(s_parameter),
     is_stale |-> FALSE]

\* Each _evaluate_*_criterion either returns None (Ok(<<>>)), returns one
\* result (Ok(<<r>>)), or lets an exception escape (Err(e)).

\* variant: only the maximum gain is checked
evaluate_gain_range_criterion_MaxOnly(criterion, metrics, s_param, meas, id) ==
    IF <<s_param, "Gain Range">> \notin DOMAIN metrics THEN Ok(None)
    ELSE Ok(Some(TestResult(id, meas.id, criterion.id,
                    metrics[<<s_param, "Gain Range">>].max,
                    evaluate(criterion, metrics[<<s_param, "Gain Range">>].max),
                    s_param)))

\* passed = min_pass and max_pass; measured_value = max_gain
evaluate_gain_range_criterion(criterion, metrics, s_param, meas, id) ==
    IF <<s_param, "Gain Range">> \notin DOMAIN metrics THEN Ok(None)
    ELSE Ok(Some(TestResult(id, meas.id, criterion.id,
                    metrics[<<s_param, "Gain Range">>].max,
                    /\ evaluate(criterion, metrics[<<s_param, "Gain Range">>].min)
                    /\ evaluate(criterion, metrics[<<s_param, "Gain Range">>].max),
                    s_param)))

evaluate_flatness_criterion(criterion, metrics, s_param, meas, id) ==
    IF <<s_param, "Flatness">> \notin DOMAIN metrics THEN Ok(None)
    ELSE Ok(Some(TestResult(id, meas.id, criterion.id,
                    metrics[<<s_param, "Flatness">>],
                    evaluate(criterion, metrics[<<s_param, "Flatness">>]),
                    s_param)))

evaluate_vswr_criterion(criterion, metrics, s_param, meas, id) ==
    IF <<s_param, "VSWR">> \notin DOMAIN metrics THEN Ok(None)
    ELSE Ok(Some(TestResult(id, meas.id, criterion.id,
                    metrics[<<s_param, "VSWR">>],
                    evaluate(criterion, metrics[<<s_param, "VSWR">>]),
                    s_param)))

\* Python truthiness of Optional[float]: None and 0.0 are both falsy
Truthy(o) == ~IsNone(o) /\ Val(o) # 0

\* variant: a missing lower bound passes
OobPassed_FailOpen(rejection, min_value) ==
    IF IsNone(min_value) THEN TRUE ELSE rejection >= Val(min_value)

\* passed = rejection >= criterion.min_value if criterion.min_value else False
OobPassed(rejection, min_value) ==
    IF Truthy(min_value) THEN rejection >= Val(min_value) ELSE FALSE

\* variant: no except clause, the calculation error escapes
OobOutcome_NoExcept(rejection, criterion, s_param, meas, id) ==
    IF rejection.tag # "ok" THEN Err(rejection.tag)
    ELSE Ok(Some(TestResult(id, meas.id, criterion.id, rejection.val,
                            OobPassed(rejection.val, criterion.min_value),
                            s_param)))

\* the try block around calculate_oob_rejection: ValueError and IndexError
\* are caught and None is returned, otherwise the result is built
OobOutcome(rejection, criterion, s_param, meas, id) ==
    IF rejection.tag \in {"ValueError", "IndexError"} THEN Ok(None)
    ELSE IF rejection.tag # "ok" THEN Err(rejection.tag)
    ELSE Ok(Some(TestResult(id, meas.id, criterion.id, rejection.val,
                            OobPassed(rejection.val, criterion.min_value),
                            s_param)))

evaluate_oob_criterion(criterion, net, s_param, meas, operational_freq_min, operational_freq_max, id) ==
    IF IsNone(criterion.frequency_min) \/ IsNone(criterion.frequency_max)
    THEN Ok(None)
    ELSE OobOutcome(
             OobRejection(net, Val(criterion.frequency_min),
                          Val(criterion.frequency_max),
                          operational_freq_min, operational_freq_max, s_param),
             criterion, s_param, meas, id)

StrGain == <<"g","a","i","n">>

StrRange == <<"r","a","n","g","e">>

StrFlatness == <<"f","l","a","t","n","e","s","s">>

StrVswr == <<"v","s","w","r">>

\* variant: whatever is not gain-range is taken for flatness
FamilyOfName_ElseFlatness(req_name, criterion) ==
    IF Contains(req_name, StrGain) /\ Contains(req_name, StrRange)
    THEN "gain_range"
    ELSE "flatness"

\* variant: a criterion with a band is taken for out-of-band first
FamilyOfName_BandFirst(req_name, criterion) ==
    IF ~IsNone(criterion.frequency_min) /\ ~IsNone(criterion.frequency_max)
    THEN "oob"
    ELSE IF Contains(req_name, StrGain) /\ Contains(req_name, StrRange)
    THEN "gain_range"
    ELSE IF Contains(req_name, StrFlatness) THEN "flatness"
    ELSE IF Contains(req_name, StrVswr) THEN "vswr"
    ELSE "none"

\* the if/elif chain of _evaluate_criterion_for_all_s_params
FamilyOfName(req_name, criterion) ==
    IF Contains(req_name, StrGain) /\ Contains(req_name, StrRange)
    THEN "gain_range"
    ELSE IF Contains(req_name, StrFlatness) THEN "flatness"
    ELSE IF Contains(req_name, StrVswr) THEN "vswr"
    ELSE IF ~IsNone(criterion.frequency_min)
            /\ ~IsNone(criterion.frequency_max) THEN "oob"
    ELSE "none"

\* req_name = criterion.requirement_name.lower()
CriterionFamily(criterion) ==
    FamilyOfName(Lower(criterion.requirement_name), criterion)

\* `if result: results.append(result)` followed by the rest of the loop;
\* an exception that escapes one step ends the loop
Extend(result, rest) ==
    IF result.tag # "ok" THEN Err(result.tag)
    ELSE IF rest.tag # "ok" THEN rest
    ELSE Ok(result.val \o rest.val)

\* the _evaluate_*_criterion call of one loop step
FamilyStep(family, criterion, metrics, net, meas, fmin, fmax, s_param, id) ==
    CASE family = "gain_range" ->
           evaluate_gain_range_criterion(criterion, metrics, s_param, meas, id)
      [] family = "flatness" ->
           evaluate_flatness_criterion(criterion, metrics, s_param, meas, id)
      [] family = "vswr" ->
           evaluate_vswr_criterion(criterion, metrics, s_param, meas, id)
      [] family = "oob" ->
           evaluate_oob_criterion(criterion, net, s_param, meas, fmin, fmax, id)

\* one loop `for s_param in <labels>: result = ...; if result: append`
RECURSIVE FamilyLoop(_, _, _, _, _, _, _, _, _, _)
FamilyLoop(family, criterion, metrics, net, meas, fmin, fmax, labels, k, idBase) ==
    IF k > Len(labels) THEN Ok(<<>>)
    ELSE Extend(FamilyStep(family, criterion, metrics, net, meas, fmin, fmax,
                           labels[k], <<idBase[1], idBase[2], k>>),
                FamilyLoop(family, criterion, metrics, net, meas, fmin, fmax,
                           labels, k + 1, idBase))

\* the labels a branch of the if/elif chain loops over
LoopLabels(family, gain_s_params, vswr_s_params) ==
    IF family = "none" THEN <<>>
    ELSE IF family = "vswr" THEN vswr_s_params
    ELSE gain_s_params

\* the branch taken once the family of the criterion is known
FamilyBranch(family, criterion, metrics, net, meas, fmin, fmax, gain_s_params, vswr_s_params, idBase) ==
    FamilyLoop(family, criterion, metrics, net, meas, fmin, fmax,
               LoopLabels(family, gain_s_params, vswr_s_params), 1, idBase)

evaluate_criterion_for_all_s_params(criterion, metrics, net, meas, fmin, fmax, gain_s_params, vswr_s_params, idBase) ==
    FamilyBranch(CriterionFamily(criterion), criterion, metrics, net, meas,
                 fmin, fmax, gain_s_params, vswr_s_params, idBase)

\* `for criterion in test_criteria: results.extend(...)`
\* variant: the loop over the criteria returns after its first step
CriteriaLoop_FirstOnly(test_criteria, c, metrics, net, meas, fmin, fmax, gain_s_params, vswr_s_params, callNo) ==
    IF c > Len(test_criteria) THEN Ok(<<>>)
    ELSE evaluate_criterion_for_all_s_params(test_criteria[c], metrics, net,
             meas, fmin, fmax, gain_s_params, vswr_s_params, <<callNo, c>>)

RECURSIVE CriteriaLoop(_, _, _, _, _, _, _, _, _, _)
CriteriaLoop(test_criteria, c, metrics, net, meas, fmin, fmax, gain_s_params, vswr_s_params, callNo) ==
    IF c > Len(test_criteria) THEN Ok(<<>>)
    ELSE Extend(evaluate_criterion_for_all_s_params(test_criteria[c],
                    metrics, net, meas, fmin, fmax, gain_s_params,
                    vswr_s_params, <<callNo, c>>),
                CriteriaLoop(test_criteria, c + 1, metrics, net, meas,
                             fmin, fmax, gain_s_params, vswr_s_params,
                             callNo))

\* what the call hands back: the exception that escaped, or the results
Outcome(out) ==
    IF out.tag # "ok"
    THEN [raised |-> out.tag, results |-> <<>>]
    ELSE [raised |-> "none", results |-> out.val]

\* the body of evaluate_compliance for a measurement that holds a network
EvaluateNetwork(net, meas, dev, test_criteria, fmin, fmax, callNo) ==
    Outcome(CriteriaLoop(test_criteria, 1, Metrics(net, fmin, fmax), net,
                         meas, fmin, fmax,
                         get_gain_s_parameters(dev, net.nports),
                         get_vswr_s_parameters(dev, net.nports), callNo))

\* evaluate_compliance: [raised, results]; uuid4() ids are modelled by the
\* triple <<call number, criterion position, label position>>.
\* calculate_metrics raises ValueError when the measurement has no data.
evaluate_compliance(meas, dev, test_criteria, fmin, fmax, callNo) ==
    IF IsNone(meas.touchstone_data)
    THEN [raised |-> "ValueError", results |-> <<>>]
    ELSE EvaluateNetwork(Val(meas.touchstone_data), meas, dev, test_criteria,
                         fmin, fmax, callNo)

----------------------------------------------------------------------------
(* Specification of the compliance engine *)

\* no evaluate_compliance call is under way: a measurement without data, a
\* two-port device, no criteria
EngineIdle ==
    /\ measurement = [id |-> MeasurementId, touchstone_data |-> None]
    /\ device = [input_ports |-> <<1>>, output_ports |-> <<2>>]
    /\ call = [test_criteria |-> <<>>, band |-> <<1, 2>>]
    /\ results = <<>>
    /\ raised = "none"
    /\ evalCount = 0

\* no TestCriteria has been constructed
CriteriaIdle ==
    /\ crit = None
    /\ ctorArgs = None
    /\ ctorError = "none"
    /\ evalArg = None
    /\ evalOut = None

\* no function has been applied
FnIdle ==
    /\ op = None
    /\ ret = None

\* the service has no repository rows and no result repository
ServiceIdle ==
    /\ criteriaRows = <<>>
    /\ resultRows = <<>>
    /\ resultRepo = FALSE

\* the state before the call: the arguments are fixed, nothing has run
Start(d, test_criteria, band, m) ==
    /\ device = d
    /\ call = [test_criteria |-> test_criteria, band |-> band]
    /\ measurement = m
    /\ results = <<>>
    /\ raised = "none"
    /\ evalCount = 0
    /\ CriteriaIdle
    /\ ServiceIdle
    /\ FnIdle

\* The arguments of the evaluate_compliance calls of a behaviour are drawn
\* with the initial state:
\*   every device with one criterion of every requirement name, on a
\*     network of every port count;
\*   every criterion alone on the two-port device, on every measurement;
\*   every two-element list of PairCriteria on that device, on every
\*     measurement.
Init ==
    \/ \E d \in Devices, a \in FanCriteria, m \in FanMeasurements :
          Start(d, <<Instance(a, 1)>>, <<2, 4>>, m)
    \/ \E d \in PairDevices, a \in EngineCriteria, band \in OpBands,
           m \in Measurements :
          Start(d, <<Instance(a, 1)>>, band, m)
    \/ \E d \in PairDevices, a \in PairCriteria, b \in PairCriteria,
           m \in Measurements :
          Start(d, <<Instance(a, 1), Instance(b, 2)>>, <<1, 2>>, m)

\* the caller receives the results, or the exception
Return(out) ==
    /\ results' = out.results
    /\ raised' = out.raised

\* SParametersTestType.evaluate_compliance(measurement, device,
\*     test_criteria, operational_freq_min, operational_freq_max)
EvaluateCompliance ==
    /\ evalCount < MaxEvals
    /\ Return(evaluate_compliance(measurement, device, call.test_criteria,
                                  call.band[1], call.band[2], evalCount + 1))
    /\ evalCount' = evalCount + 1
    /\ UNCHANGED <<measurement, device, call, criteriaVars, fnVars, serviceVars>>

Next == EvaluateCompliance

Spec == Init /\ [][Next]_vars

----------------------------------------------------------------------------
(* Specification of repeated evaluate_compliance calls on the same inputs *)

MaxRepeats == 2        \* calls per behaviour when the caller calls again

\* variant: the repeated call sorts the device's input port list in place
EvaluateComplianceAgain_SortsPorts ==
    /\ evalCount >= 1
    /\ evalCount < MaxRepeats
    /\ Return(evaluate_compliance(measurement, device, call.test_criteria,
                                  call.band[1], call.band[2], evalCount + 1))
    /\ evalCount' = evalCount + 1
    /\ device' = [device EXCEPT
                    !.input_ports = SortedInts(Range(device.input_ports))]
    /\ UNCHANGED <<measurement, call, criteriaVars, fnVars, serviceVars>>

\* the caller calls evaluate_compliance again with the arguments of the
\* call before
EvaluateComplianceAgain ==
    /\ evalCount >= 1
    /\ evalCount < MaxRepeats
    /\ Return(evaluate_compliance(measurement, device, call.test_criteria,
                                  call.band[1], call.band[2], evalCount + 1))
    /\ evalCount' = evalCount + 1
    /\ UNCHANGED <<measurement, device, call, criteriaVars, fnVars, serviceVars>>

NextRepeat == EvaluateCompliance \/ EvaluateComplianceAgain

SpecRepeat == Init /\ [][NextRepeat]_vars

----------------------------------------------------------------------------
(* Specification of TestCriteria: construction and evaluate *)

\* measured values handed to evaluate: each bound, and just off each bound
EvalValues == {-1, 0, 1, 19, 20, 21, 59, 60, 61}

CriteriaId == 1

InitCriteria ==
    /\ EngineIdle
    /\ CriteriaIdle
    /\ ServiceIdle
    /\ FnIdle

\* TestCriteria(**a): both validators run; an instance exists only if
\* neither raised
Construct(a) ==
    /\ ctorArgs' = Some(a)
    /\ ctorError' = ConstructError(a)
    /\ crit' = IF ConstructError(a) = "none"
               THEN Some(Instance(a, CriteriaId)) ELSE None
    /\ evalArg' = None
    /\ evalOut' = None
    /\ UNCHANGED <<engineVars, fnVars, serviceVars>>

\* crit.evaluate(value) on the instance constructed last
EvaluateValue(value) ==
    /\ ~IsNone(crit)
    /\ evalArg' = Some(value)
    /\ evalOut' = Some(evaluate(Val(crit), value))
    /\ UNCHANGED <<engineVars, crit, ctorArgs, ctorError, fnVars, serviceVars>>

NextCriteria ==
    \/ \E a \in CtorArgs : Construct(a)
    \/ \E value \in EvalValues : EvaluateValue(value)

SpecCriteria == InitCriteria /\ [][NextCriteria]_vars

----------------------------------------------------------------------------
(* Vocabulary of the properties *)

Called == evalCount > 0

HasData == ~IsNone(measurement.touchstone_data)

Net == Val(measurement.touchstone_data)

NameHas(c, word) == Contains(Lower(c.requirement_name), word)

HasBand(c) == ~IsNone(c.frequency_min) /\ ~IsNone(c.frequency_max)

\* label of a single-digit port pair, written out character by character
PortLabel(out, in) == <<"S", DigitChars[out + 1], DigitChars[in + 1]>>

ResultIndices == 1..Len(results)

CountLabel(label) ==
    Cardinality({k \in ResultIndices : results[k].s_parameter = Some(label)})

SingleCriterion == Len(call.test_criteria) = 1

TheCriterion == call.test_criteria[1]

\* a result without its identity
NoId(r) ==
    [measurement_id |-> r.measurement_id,
     test_criteria_id |-> r.test_criteria_id,
     measured_value |-> r.measured_value,
     passed |-> r.passed,
     s_parameter |-> r.s_parameter,
     is_stale |-> r.is_stale]

NoIds(rs) == [k \in 1..Len(rs) |-> NoId(rs[k])]

----------------------------------------------------------------------------
(* C1: gain-range fan-out *)

\* index pairs (input position, output position) whose ports both exist
GainPairs ==
    {pr \in (1..Len(device.input_ports)) \X (1..Len(device.output_ports)) :
        /\ device.input_ports[pr[1]] <= Net.nports
        /\ device.output_ports[pr[2]] <= Net.nports}

GainPairLabel(pr) ==
    PortLabel(device.output_ports[pr[2]], device.input_ports[pr[1]])

\* C1: on a network with data, a single gain-range criterion (name holding
\* "gain" and "range") yields one result per (input, output) pair whose
\* ports both exist in the network, labelled S{out}{in}, and no other
\* result: k*m results when all configured ports exist.
C1_GainFanOut ==
    (/\ Called /\ HasData /\ SingleCriterion
     /\ NameHas(TheCriterion, StrGain) /\ NameHas(TheCriterion, StrRange)
     /\ Net.f # <<>>)
    => /\ raised = "none"
       /\ Len(results) = Cardinality(GainPairs)
       /\ \A pr \in GainPairs :
            CountLabel(GainPairLabel(pr)) =
              Cardinality({q \in GainPairs :
                              GainPairLabel(q) = GainPairLabel(pr)})
       /\ (\A p \in Range(device.input_ports) \cup Range(device.output_ports) :
              p <= Net.nports)
          => Len(results) = Len(device.input_ports) * Len(device.output_ports)

\* two inputs, one output, all in the network: two results
C1_Witness ==
    /\ Called /\ HasData /\ SingleCriterion
    /\ NameHas(TheCriterion, StrGain) /\ NameHas(TheCriterion, StrRange)
    /\ device.input_ports = <<2, 1>> /\ device.output_ports = <<3>>
    /\ Net.nports = 3
    /\ Len(results) = 2
    /\ results[1].s_parameter = Some(PortLabel(3, 1))
    /\ results[2].s_parameter = Some(PortLabel(3, 2))

----------------------------------------------------------------------------
(* C2: VSWR fan-out *)

VswrPorts ==
    {p \in Range(device.input_ports) \cup Range(device.output_ports) :
        p <= Net.nports}

VswrFanOut ==
    /\ raised = "none"
    /\ Len(results) = Cardinality(VswrPorts)
    /\ \A p \in VswrPorts : CountLabel(PortLabel(p, p)) = 1

\* C2 as stated: any single criterion whose name holds "vswr" yields exactly
\* one result S{p}{p} per configured port p that exists in the network.
C2_Original ==
    (/\ Called /\ HasData /\ SingleCriterion
     /\ NameHas(TheCriterion, StrVswr))
    => VswrFanOut

\* C2 amended: the same, for a network with at least one frequency point and
\* a name that holds "vswr" but neither "flatness" nor "gain" with "range".
C2_VswrFanOut ==
    (/\ Called /\ HasData /\ SingleCriterion
     /\ NameHas(TheCriterion, StrVswr)
     /\ ~NameHas(TheCriterion, StrFlatness)
     /\ ~(NameHas(TheCriterion, StrGain) /\ NameHas(TheCriterion, StrRange))
     /\ Net.f # <<>>)
    => VswrFanOut

\* ports 1, 2, 3 configured on a two-port network: results S11 and S22 only
C2_Witness ==
    /\ Called /\ HasData /\ SingleCriterion
    /\ TheCriterion.requirement_name = NameVswrMax
    /\ device.input_ports = <<3, 1>> /\ device.output_ports = <<2>>
    /\ Net.nports = 2
    /\ Len(results) = 2
    /\ results[1].s_parameter = Some(PortLabel(1, 1))
    /\ results[2].s_parameter = Some(PortLabel(2, 2))

----------------------------------------------------------------------------
(* C3, C4: out-of-band criteria *)

\* band set and the name matches none of the three name patterns
IsOobCriterion(c) ==
    /\ HasBand(c)
    /\ ~(NameHas(c, StrGain) /\ NameHas(c, StrRange))
    /\ ~NameHas(c, StrFlatness)
    /\ ~NameHas(c, StrVswr)

CriterionIndices == 1..Len(call.test_criteria)

\* worst-case rejection of a label for criterion c of the call
RejectionOf(c, label) ==
    OobRejection(Net, Val(c.frequency_min), Val(c.frequency_max),
                 call.band[1], call.band[2], label).val

\* C3 as stated: for an OOB criterion with a lower bound of any numeric
\* value, a result passes exactly when the worst-case rejection of its
\* label is >= the lower bound.
C3_Original ==
    (Called /\ HasData)
    => \A ci \in CriterionIndices : \A k \in ResultIndices :
          LET c == call.test_criteria[ci]
              r == results[k]
          IN (/\ IsOobCriterion(c)
              /\ ~IsNone(c.min_value)
              /\ r.test_criteria_id = c.id)
             => (r.passed <=>
                   RejectionOf(c, Val(r.s_parameter)) >= Val(c.min_value))

\* C4: for an OOB criterion without a lower bound every result fails.
C4_OobFailClosed ==
    (Called /\ HasData)
    => \A ci \in CriterionIndices : \A k \in ResultIndices :
          LET c == call.test_criteria[ci]
              r == results[k]
          IN (/\ IsOobCriterion(c)
              /\ IsNone(c.min_value)
              /\ r.test_criteria_id = c.id)
             => r.passed = FALSE

\* an OOB criterion of kind max whose upper bound the rejection satisfies,
\* and the result still fails
C4_Witness ==
    /\ Called /\ HasData /\ SingleCriterion
    /\ IsOobCriterion(TheCriterion)
    /\ TheCriterion.criteria_type = "max"
    /\ Len(results) = 1
    /\ Val(results[1].measured_value) <= Val(TheCriterion.max_value)
    /\ Val(results[1].measured_value) > 0
    /\ results[1].passed = FALSE

----------------------------------------------------------------------------
(* C5: gain-range pass flag and measured value *)

IsGainRangeCriterion(c) == NameHas(c, StrGain) /\ NameHas(c, StrRange)

\* C5: a gain-range result passes exactly when the criterion holds for the
\* windowed minimum gain and for the windowed maximum gain of its label over
\* the operational band; its measured value is the windowed maximum.
C5_GainRangePass ==
    (Called /\ HasData)
    => \A ci \in CriterionIndices :
          LET c == call.test_criteria[ci]
          IN IsGainRangeCriterion(c)
             => \A k \in ResultIndices :
                   LET r == results[k]
                       gr == calculate_gain_range(Net, call.band[1],
                                 call.band[2], Val(r.s_parameter)).val
                   IN (r.test_criteria_id = c.id)
                      => /\ r.passed = (/\ evaluate(c, gr[1])
                                        /\ evaluate(c, gr[2]))
                         /\ r.measured_value = Some(gr[2])

\* the maximum satisfies the range, the minimum does not: the result fails
C5_Witness ==
    /\ Called /\ HasData /\ SingleCriterion
    /\ IsGainRangeCriterion(TheCriterion)
    /\ TheCriterion.criteria_type = "range"
    /\ Len(results) = 1
    /\ LET gr == calculate_gain_range(Net, call.band[1], call.band[2],
                                      Val(results[1].s_parameter)).val
       IN /\ gr[1] < Val(TheCriterion.min_value)
          /\ gr[2] >= Val(TheCriterion.min_value)
          /\ gr[2] <= Val(TheCriterion.max_value)
          /\ results[1].measured_value = Some(gr[2])
    /\ results[1].passed = FALSE

----------------------------------------------------------------------------
(* C6: a failing label does not abort the evaluation *)

\* labels the family of criterion c is evaluated on
FamilyLabels(c) ==
    IF CriterionFamily(c) = "vswr"
    THEN get_vswr_s_parameters(device, Net.nports)
    ELSE IF CriterionFamily(c) = "none" THEN <<>>
    ELSE get_gain_s_parameters(device, Net.nports)

\* TRUE when the metric of criterion c computes for the label
MetricComputes(c, label) ==
    CASE CriterionFamily(c) = "vswr" ->
           calculate_vswr(Net, DigitVal(label[2]),
                          call.band[1], call.band[2]).tag = "ok"
      [] CriterionFamily(c) = "oob" ->
           OobRejection(Net, Val(c.frequency_min), Val(c.frequency_max),
                        call.band[1], call.band[2], label).tag = "ok"
      [] OTHER ->
           calculate_gain_range(Net, call.band[1], call.band[2],
                                label).tag = "ok"

----------------------------------------------------------------------------
(* C7: unrecognised criteria are ignored *)

IsUnrecognised(c) ==
    /\ ~(NameHas(c, StrGain) /\ NameHas(c, StrRange))
    /\ ~NameHas(c, StrFlatness)
    /\ ~NameHas(c, StrVswr)
    /\ ~HasBand(c)

RecognisedCriteria == SelectSeq(call.test_criteria, LAMBDA c : ~IsUnrecognised(c))

\* C7: a criterion whose name matches no pattern and that has no band gives
\* no result and no error; the call returns what it returns for the list
\* without that criterion.
C7_UnrecognisedIgnored ==
    (/\ Called /\ HasData
     /\ \E ci \in CriterionIndices : IsUnrecognised(call.test_criteria[ci]))
    => /\ raised = "none"
       /\ \A k \in ResultIndices : \A ci \in CriterionIndices :
             IsUnrecognised(call.test_criteria[ci])
             => results[k].test_criteria_id # call.test_criteria[ci].id
       /\ NoIds(results) =
            NoIds(evaluate_compliance(measurement, device, RecognisedCriteria,
                                      call.band[1], call.band[2], 1).results)

\* an unrecognised criterion followed by a VSWR criterion that has results
C7_Witness ==
    /\ Called /\ HasData
    /\ Len(call.test_criteria) = 2
    /\ IsUnrecognised(call.test_criteria[1])
    /\ call.test_criteria[2].requirement_name = NameVswrMax
    /\ Len(results) = 2
    /\ \A k \in ResultIndices : results[k].test_criteria_id = 2
    /\ raised = "none"

----------------------------------------------------------------------------
(* C10: results are never stale *)

\* C10: every result returned by evaluate_compliance has is_stale False.
C10_NeverStale ==
    \A k \in ResultIndices : results[k].is_stale = FALSE

C10_Witness ==
    /\ Called
    /\ Len(results) >= 2
    /\ \E k \in ResultIndices : results[k].passed
    /\ \E k \in ResultIndices : ~results[k].passed

----------------------------------------------------------------------------
(* C8: TestCriteria.evaluate *)

Evaluated == ~IsNone(evalOut)

\* C8: evaluate(value) is min_value <= value <= max_value for range,
\* value >= min_value for min and greater_than_equal, value <= max_value
\* for max and less_than_equal.
C8_EvaluateByKind ==
    Evaluated
    => LET c == Val(crit)
           v == Val(evalArg)
           out == Val(evalOut)
       IN /\ c.criteria_type = "range"
             => (out <=> (Val(c.min_value) <= v /\ v <= Val(c.max_value)))
          /\ c.criteria_type \in {"min", "greater_than_equal"}
             => (out <=> v >= Val(c.min_value))
          /\ c.criteria_type \in {"max", "less_than_equal"}
             => (out <=> v <= Val(c.max_value))
          /\ c.criteria_type = "range"
             => /\ v \in {Val(c.min_value), Val(c.max_value)} => out
                /\ v \in {Val(c.min_value) - 1, Val(c.max_value) + 1} => ~out

\* a range criterion evaluated on its upper bound passes
C8_Witness ==
    /\ Evaluated
    /\ Val(crit).criteria_type = "range"
    /\ Val(evalArg) = Val(Val(crit).max_value)
    /\ Val(evalOut) = TRUE

----------------------------------------------------------------------------
(* C9: TestCriteria construction *)

\* the constraints of the claim, on constructor arguments or an instance
BoundsMatchKind(a) ==
    /\ a.criteria_type \in
         {"range", "min", "max", "less_than_equal", "greater_than_equal"}
    /\ a.criteria_type = "range"
       => /\ ~IsNone(a.min_value) /\ ~IsNone(a.max_value)
          /\ Val(a.min_value) < Val(a.max_value)
    /\ a.criteria_type \in {"min", "greater_than_equal"}
       => ~IsNone(a.min_value) /\ IsNone(a.max_value)
    /\ a.criteria_type \in {"max", "less_than_equal"}
       => ~IsNone(a.max_value) /\ IsNone(a.min_value)
    /\ \/ IsNone(a.frequency_min) /\ IsNone(a.frequency_max)
       \/ /\ ~IsNone(a.frequency_min) /\ ~IsNone(a.frequency_max)
          /\ Val(a.frequency_min) < Val(a.frequency_max)

\* C9: a construction succeeds exactly when the bounds match the kind, the
\* kind is allowed and the band is absent or complete and ordered; every
\* other construction raises TestCriteriaError and yields no instance.
C9_ConstructionValidated ==
    ~IsNone(ctorArgs)
    => /\ (ctorError = "none") <=> BoundsMatchKind(Val(ctorArgs))
       /\ ctorError # "none" => (ctorError = "TestCriteriaError" /\ IsNone(crit))
       /\ ctorError = "none" => ~IsNone(crit)
       /\ ~IsNone(crit) => BoundsMatchKind(Val(crit))

\* a range with equal bounds is rejected
C9_Witness ==
    /\ ~IsNone(ctorArgs)
    /\ Val(ctorArgs).criteria_type = "range"
    /\ Val(ctorArgs).min_value = Some(20)
    /\ Val(ctorArgs).max_value = Some(20)
    /\ ctorError = "TestCriteriaError"
    /\ IsNone(crit)

----------------------------------------------------------------------------
(* C11 *)

\* the labels a criterion's family is evaluated for: S{out}{in} of the listed
\* pairs for the gain families, S{p}{p} of the listed ports for VSWR
FamilyLabelSet(c) ==
    IF CriterionFamily(c) = "vswr"
    THEN {PortLabel(p, p) : p \in VswrPorts}
    ELSE IF CriterionFamily(c) = "none" THEN {}
    ELSE {GainPairLabel(pr) : pr \in GainPairs}

\* every result of the criterion with this id carries a label of the set
ResultLabelsWithin(id, labels) ==
    \A k \in ResultIndices :
       results[k].test_criteria_id = id
       => Val(results[k].s_parameter) \in labels

\* C11: every result returned by evaluate_compliance carries a label, the id
\* of the evaluated measurement, and the id of a supplied criterion whose
\* family's label set (reflection labels for VSWR, gain labels otherwise)
\* holds that label.
C11_ResultsWellFormed ==
    Called
    => /\ \A k \in ResultIndices :
             /\ ~IsNone(results[k].s_parameter)
             /\ results[k].measurement_id = measurement.id
             /\ \E ci \in CriterionIndices :
                   call.test_criteria[ci].id = results[k].test_criteria_id
       /\ ~HasData => results = <<>>
       /\ HasData
          => \A ci \in CriterionIndices :
                ResultLabelsWithin(call.test_criteria[ci].id,
                                   FamilyLabelSet(call.test_criteria[ci]))

\* a gain-range criterion and a VSWR criterion evaluated together: S21 for
\* the first, S11 and S22 for the second
C11_Witness ==
    /\ Called /\ HasData
    /\ Len(call.test_criteria) = 2
    /\ CriterionFamily(call.test_criteria[1]) = "gain_range"
    /\ CriterionFamily(call.test_criteria[2]) = "vswr"
    /\ Len(results) = 3
    /\ results[1].s_parameter = Some(PortLabel(2, 1))
    /\ results[1].test_criteria_id = call.test_criteria[1].id
    /\ results[2].s_parameter = Some(PortLabel(1, 1))
    /\ results[3].s_parameter = Some(PortLabel(2, 2))
    /\ results[3].test_criteria_id = call.test_criteria[2].id

----------------------------------------------------------------------------
(* Specification of Device.get_gain_s_parameters, and C12 *)

\* Device(...) instances with ports up to MaxDevicePorts
WideDevices ==
    {[input_ports |-> p[1], output_ports |-> p[2]] :
        p \in {q \in SeqsUpTo(1..MaxDevicePorts, MaxPortList)
                        \X SeqsUpTo(1..MaxDevicePorts, MaxPortList) :
                  validate_port_configuration(q[1], q[2])}}

\* the call to make is drawn with the initial state
InitDevice ==
    /\ EngineIdle
    /\ CriteriaIdle
    /\ ServiceIdle
    /\ \E dev \in WideDevices, n_ports \in 1..MaxDevicePorts :
          op = Some([name |-> "get_gain_s_parameters",
                     device |-> dev, n_ports |-> n_ports])
    /\ ret = None

\* dev.get_gain_s_parameters(n_ports)
GetGainSParameters ==
    /\ ~IsNone(op)
    /\ Val(op).name = "get_gain_s_parameters"
    /\ IsNone(ret)
    /\ ret' = Some(get_gain_s_parameters(Val(op).device, Val(op).n_ports))
    /\ UNCHANGED <<engineVars, criteriaVars, op, serviceVars>>

NextDevice == GetGainSParameters

SpecDevice == InitDevice /\ [][NextDevice]_vars

\* the application named `name` has returned
Applied(name) == ~IsNone(op) /\ Val(op).name = name /\ ~IsNone(ret)

\* (input position, output position) pairs whose ports are both <= n_ports
ListedPairs(dev, n_ports) ==
    {pr \in (1..Len(dev.input_ports)) \X (1..Len(dev.output_ports)) :
        /\ dev.input_ports[pr[1]] <= n_ports
        /\ dev.output_ports[pr[2]] <= n_ports}

\* the number a label S{out}{in} of single-digit ports reads as
LabelNumber(label) == 10 * DigitVal(label[2]) + DigitVal(label[3])

\* C12: get_gain_s_parameters(n_ports) returns the labels S{out}{in} of the
\* (input, output) pairs with both ports <= n_ports, one per listed pair, in
\* ascending order; for input_ports [1, 2], output_ports [3, 4] and
\* n_ports 4 it returns S31, S32, S41, S42.
C12_GainLabelsSorted ==
    Applied("get_gain_s_parameters")
    => LET dev == Val(op).device
           n_ports == Val(op).n_ports
           out == Val(ret)
           pairs == ListedPairs(dev, n_ports)
           labelOf(pr) == PortLabel(dev.output_ports[pr[2]],
                                    dev.input_ports[pr[1]])
       IN /\ Range(out) = {labelOf(pr) : pr \in pairs}
          /\ \A l \in Range(out) :
                Cardinality({k \in 1..Len(out) : out[k] = l})
                = Cardinality({pr \in pairs : labelOf(pr) = l})
          /\ \A k \in 1..(Len(out) - 1) :
                LabelNumber(out[k]) <= LabelNumber(out[k + 1])
          /\ (/\ dev.input_ports = <<1, 2>>
              /\ dev.output_ports = <<3, 4>>
              /\ n_ports = 4)
             => out = <<PortLabel(3, 1), PortLabel(3, 2),
                        PortLabel(4, 1), PortLabel(4, 2)>>

\* the scenario of the claim has been computed
C12_Witness ==
    /\ Applied("get_gain_s_parameters")
    /\ Val(op).device = [input_ports |-> <<1, 2>>, output_ports |-> <<3, 4>>]
    /\ Val(op).n_ports = 4
    /\ Len(Val(ret)) = 4

----------------------------------------------------------------------------
(* Specification of SParameterCalculator: one application per behaviour *)

MaxGHz == 7        \* frequency bounds passed to the calculator, in GHz

\* frequency bounds in GHz: below, inside and above the measured spans
FreqArgs == 0..MaxGHz

\* (freq_min, freq_max) pairs for the band calculations, one of them
\* reversed and one of them a single frequency
CalcBands == {<<1, 2>>, <<2, 4>>, <<0, MaxGHz>>, <<5, 3>>, <<6, 6>>}

\* out-of-band windows
CalcOobBands == {<<3, 5>>, <<6, MaxGHz>>, <<0, 0>>}

\* labels handed to calculate_gain: well-formed ones, ones naming port 0 or
\* a port the network may not have, ones with trailing text and malformed ones
CalcLabels ==
    {<<"S", "2", "1">>, <<"S", "1", "1">>, <<"S", "1", "2">>,
     <<"S", "3", "1">>, <<"S", "0", "1">>, <<"S", "2", "0">>,
     <<"S", "2", "1", "1">>, <<"S", "2", "1", "x">>, <<"S", "2">>, <<>>,
     <<"T", "2", "1">>, <<"s", "2", "1">>, <<"S", "x", "1">>,
     <<"2", "1", "S">>}

\* labels handed to the band calculations
BandLabels == {<<"S", "2", "1">>, <<"S", "1", "1">>, <<"S", "3", "1">>, <<"S", "2">>}

\* optional (freq_min, freq_max) pairs handed to calculate_vswr
VswrBounds ==
    {<<Some(b[1]), Some(b[2])>> : b \in CalcBands}
    \cup {<<None, None>>, <<Some(1), None>>, <<None, Some(2)>>}

InitCalc ==
    /\ EngineIdle
    /\ CriteriaIdle
    /\ ServiceIdle
    /\ ret = None
    /\ \E net \in Networks :
          \/ \E a \in FreqArgs, b \in FreqArgs :
                op = Some([name |-> "filter_frequency_range", net |-> net,
                           freq_min |-> a, freq_max |-> b])
          \/ \E s_param \in CalcLabels :
                op = Some([name |-> "calculate_gain", net |-> net,
                           s_param |-> s_param])
          \/ \E name \in {"calculate_gain_range", "calculate_flatness",
                           "calculate_lowest_in_band_gain"},
                 b \in CalcBands, s_param \in BandLabels :
                op = Some([name |-> name, net |-> net, freq_min |-> b[1],
                           freq_max |-> b[2], s_param |-> s_param])
          \/ \E oob \in CalcOobBands, b \in OpBands, s_param \in BandLabels :
                op = Some([name |-> "calculate_oob_rejection", net |-> net,
                           oob_freq_min |-> oob[1], oob_freq_max |-> oob[2],
                           operational_freq_min |-> b[1],
                           operational_freq_max |-> b[2],
                           s_param |-> s_param])
          \/ \E port \in 0..(MaxPorts + 1), b \in VswrBounds :
                op = Some([name |-> "calculate_vswr", net |-> net,
                           port |-> port, freq_min |-> b[1],
                           freq_max |-> b[2]])

\* the application named `name` is drawn and has not run
Pending(name) == ~IsNone(op) /\ Val(op).name = name /\ IsNone(ret)

\* calculator.filter_frequency_range(net, freq_min, freq_max)
FilterFrequencyRange ==
    /\ Pending("filter_frequency_range")
    /\ ret' = Some(filter_frequency_range(Val(op).net, Val(op).freq_min,
                                          Val(op).freq_max))
    /\ UNCHANGED <<engineVars, criteriaVars, op, serviceVars>>

\* the returned network is windowed again with the same bounds
FilterAgain ==
    /\ ~IsNone(op)
    /\ Val(op).name = "filter_frequency_range"
    /\ ~IsNone(ret)
    /\ op' = Some([name |-> "filter_again", net |-> Val(ret),
                   freq_min |-> Val(op).freq_min,
                   freq_max |-> Val(op).freq_max])
    /\ ret' = Some(filter_frequency_range(Val(ret), Val(op).freq_min,
                                          Val(op).freq_max))
    /\ UNCHANGED <<engineVars, criteriaVars, serviceVars>>

\* calculator.calculate_gain(net, s_param)
CalculateGain ==
    /\ Pending("calculate_gain")
    /\ ret' = Some(calculate_gain(Val(op).net, Val(op).s_param))
    /\ UNCHANGED <<engineVars, criteriaVars, op, serviceVars>>

\* calculator.calculate_gain_range(net, freq_min, freq_max, s_param)
CalculateGainRange ==
    /\ Pending("calculate_gain_range")
    /\ ret' = Some(calculate_gain_range(Val(op).net, Val(op).freq_min,
                                        Val(op).freq_max, Val(op).s_param))
    /\ UNCHANGED <<engineVars, criteriaVars, op, serviceVars>>

\* calculator.calculate_flatness(net, freq_min, freq_max, s_param)
CalculateFlatness ==
    /\ Pending("calculate_flatness")
    /\ ret' = Some(calculate_flatness(Val(op).net, Val(op).freq_min,
                                      Val(op).freq_max, Val(op).s_param))
    /\ UNCHANGED <<engineVars, criteriaVars, op, serviceVars>>

\* calculator.calculate_lowest_in_band_gain(net, freq_min, freq_max, s_param)
CalculateLowestInBandGain ==
    /\ Pending("calculate_lowest_in_band_gain")
    /\ ret' = Some(calculate_lowest_in_band_gain(Val(op).net,
                       Val(op).freq_min, Val(op).freq_max, Val(op).s_param))
    /\ UNCHANGED <<engineVars, criteriaVars, op, serviceVars>>

\* calculator.calculate_oob_rejection(net, oob band, operational band, s_param)
CalculateOobRejection ==
    /\ Pending("calculate_oob_rejection")
    /\ ret' = Some(calculate_oob_rejection(Val(op).net,
                       Val(op).oob_freq_min, Val(op).oob_freq_max,
                       Val(op).operational_freq_min,
                       Val(op).operational_freq_max, Val(op).s_param))
    /\ UNCHANGED <<engineVars, criteriaVars, op, serviceVars>>

\* calculator.calculate_vswr(net, port, freq_min, freq_max)
CalculateVswr ==
    /\ Pending("calculate_vswr")
    /\ ret' = Some(calculate_vswr_optional(Val(op).net, Val(op).port,
                       Val(op).freq_min, Val(op).freq_max))
    /\ UNCHANGED <<engineVars, criteriaVars, op, serviceVars>>

NextCalc ==
    \/ FilterFrequencyRange
    \/ FilterAgain
    \/ CalculateGain
    \/ CalculateGainRange
    \/ CalculateFlatness
    \/ CalculateLowestInBandGain
    \/ CalculateOobRejection
    \/ CalculateVswr

SpecCalc == InitCalc /\ [][NextCalc]_vars

----------------------------------------------------------------------------
(* C13: the frequency points of a windowed network *)

\* a bound in GHz, in Hz ticks, clamped to [min(frequencies), max(frequencies)]
Clamped(net, ghz) == Clip(ghz * HzPerGHz, MinOfSeq(net.f), MaxOfSeq(net.f))

\* the lower and the upper of the two clamped bounds
ClampedLow(net, a, b) == Min2(Clamped(net, a), Clamped(net, b))

ClampedHigh(net, a, b) == Max2(Clamped(net, a), Clamped(net, b))

\* strictly increasing: sorted and without duplicates
StrictlyIncreasing(f) == \A k \in 1..(Len(f) - 1) : f[k] < f[k + 1]

\* C13: filter_frequency_range on a non-empty network returns a network whose
\* frequencies are exactly the original samples inside the clamped range
\* together with the two clamped bounds, sorted and without duplicates; its
\* first and last frequency are the clamped bounds and no frequency lies
\* outside the measured range.
C13_WindowFrequencies ==
    (Applied("filter_frequency_range") /\ Val(op).net.f # <<>>)
    => LET net == Val(op).net
           out == Val(ret)
           lo == ClampedLow(net, Val(op).freq_min, Val(op).freq_max)
           hi == ClampedHigh(net, Val(op).freq_min, Val(op).freq_max)
       IN /\ Range(out.f) = {x \in Range(net.f) : lo <= x /\ x <= hi}
                                \cup {lo, hi}
          /\ StrictlyIncreasing(out.f)
          /\ out.f # <<>>
          /\ out.f[1] = lo
          /\ out.f[Len(out.f)] = hi
          /\ \A k \in 1..Len(out.f) :
                MinOfSeq(net.f) <= out.f[k] /\ out.f[k] <= MaxOfSeq(net.f)
          /\ Len(out.s) = Len(out.f)

\* a window whose bounds fall between samples, with one sample inside, and
\* whose upper bound had to be clamped
C13_Witness ==
    /\ Applied("filter_frequency_range")
    /\ Val(op).net.f = <<3, 4, 8, 12>>
    /\ Val(op).freq_min = 3
    /\ Val(op).freq_max = 7
    /\ Val(ret).f = <<6, 8, 12>>

----------------------------------------------------------------------------
(* C14: windowing a windowed network again *)

\* the network returned by the first windowing has been windowed again
FilteredAgain ==
    ~IsNone(op) /\ Val(op).name = "filter_again" /\ ~IsNone(ret)

----------------------------------------------------------------------------
(* C15: the worst-case out-of-band rejection *)

\* gain of the applied label at each point of the network windowed to the
\* out-of-band range of the applied call
OobWindowGain ==
    calculate_gain(
        filter_frequency_range(Val(op).net, Val(op).oob_freq_min,
                               Val(op).oob_freq_max),
        Val(op).s_param)

\* lowest gain of the applied label over the operational range
OobReference ==
    calculate_lowest_in_band_gain(Val(op).net, Val(op).operational_freq_min,
                                  Val(op).operational_freq_max,
                                  Val(op).s_param)

\* calculate_oob_rejection has returned a value
OobReturned == Applied("calculate_oob_rejection") /\ Val(ret).tag = "ok"

\* C15: calculate_oob_rejection returns the minimum, over the points of the
\* network windowed to the OOB band, of (lowest in-band gain minus the gain
\* at the point); it equals the lowest in-band gain minus the highest gain
\* in the OOB window.
C15_OobWorstCase ==
    OobReturned
    => /\ OobWindowGain.tag = "ok"
       /\ OobReference.tag = "ok"
       /\ OobWindowGain.val # <<>>
       /\ \A i \in 1..Len(OobWindowGain.val) :
             Val(ret).val <= OobReference.val - OobWindowGain.val[i]
       /\ \E i \in 1..Len(OobWindowGain.val) :
             Val(ret).val = OobReference.val - OobWindowGain.val[i]
       /\ Val(ret).val = OobReference.val - MaxOfSeq(OobWindowGain.val)

\* an OOB window of several points in which the first point is not the
\* weakest one
C15_Witness ==
    /\ OobReturned
    /\ Len(OobWindowGain.val) >= 3
    /\ Val(ret).val < OobReference.val - OobWindowGain.val[1]

----------------------------------------------------------------------------
(* C16: flatness and lowest in-band gain against the gain range *)

\* calculate_gain_range for the network, range and label of the applied call
SameGainRange ==
    calculate_gain_range(Val(op).net, Val(op).freq_min, Val(op).freq_max,
                         Val(op).s_param)

\* C16: calculate_flatness equals max - min of calculate_gain_range for the
\* same network, range and label, and is >= 0; calculate_lowest_in_band_gain
\* equals that min. Either one raises exactly when calculate_gain_range does.
C16_FlatnessFromGainRange ==
    /\ Applied("calculate_flatness")
       => /\ (Val(ret).tag = "ok") <=> (SameGainRange.tag = "ok")
          /\ Val(ret).tag = "ok"
             => /\ Val(ret).val = SameGainRange.val[2] - SameGainRange.val[1]
                /\ Val(ret).val >= 0
    /\ Applied("calculate_lowest_in_band_gain")
       => /\ (Val(ret).tag = "ok") <=> (SameGainRange.tag = "ok")
          /\ Val(ret).tag = "ok"
             => Val(ret).val = SameGainRange.val[1]

\* a band over which the gain varies, so that the flatness is positive
C16_Witness ==
    /\ Applied("calculate_flatness")
    /\ Val(ret).tag = "ok"
    /\ Val(ret).val > 0
    /\ SameGainRange.val[1] < SameGainRange.val[2]

----------------------------------------------------------------------------
(* C17: calculate_vswr with and without a frequency range *)

\* calculate_vswr has returned a value for a port the network has
VswrReturned ==
    /\ Applied("calculate_vswr")
    /\ Val(ret).tag = "ok"
    /\ Val(op).port \in 1..Val(op).net.nports

\* both freq_min and freq_max were supplied to the applied call
BothBounds == ~IsNone(Val(op).freq_min) /\ ~IsNone(Val(op).freq_max)

\* the network of the applied call windowed to the supplied range
VswrWindow ==
    filter_frequency_range(Val(op).net, Val(Val(op).freq_min),
                           Val(Val(op).freq_max))

\* VSWR of the applied port at each point of a network, in tenths
PortVswr(net) ==
    [i \in 1..Len(net.f) |-> s_vswr(net.s[i][Val(op).port][Val(op).port])]

\* every reflection magnitude of the applied port is <= 1
ReflectionWithinUnit(net) ==
    \A i \in 1..Len(net.f) : net.s[i][Val(op).port][Val(op).port] <= UnitMag

\* C17: with both freq_min and freq_max supplied calculate_vswr returns the
\* maximum VSWR of the port over the windowed points (>= the VSWR at every
\* windowed point, reached at one of them, and >= 1.0 when the reflection
\* magnitude is <= 1); when a bound is missing it returns the per-frequency
\* array of the unwindowed network.
C17_VswrWorstCaseOrArray ==
    VswrReturned
    => IF BothBounds
       THEN /\ PortVswr(VswrWindow) # <<>>
            /\ Val(ret).val = MaxOfSeq(PortVswr(VswrWindow))
            /\ \A i \in 1..Len(VswrWindow.f) :
                  Val(ret).val >= PortVswr(VswrWindow)[i]
            /\ \E i \in 1..Len(VswrWindow.f) :
                  Val(ret).val = PortVswr(VswrWindow)[i]
            /\ ReflectionWithinUnit(VswrWindow) => Val(ret).val >= 10
       ELSE /\ Val(ret).val = PortVswr(Val(op).net)
            /\ Len(Val(ret).val) = Len(Val(op).net.f)

\* a range of several points over which the VSWR of the port varies and the
\* first point is not the worst one
C17_Witness ==
    /\ VswrReturned
    /\ BothBounds
    /\ Len(VswrWindow.f) >= 3
    /\ Val(ret).val > PortVswr(VswrWindow)[1]

\* with only one bound supplied the array of the whole sweep is returned
C17_ArrayReached ==
    /\ VswrReturned
    /\ ~IsNone(Val(op).freq_min)
    /\ IsNone(Val(op).freq_max)
    /\ Len(Val(ret).val) = 4

----------------------------------------------------------------------------
(* C18: the labels calculate_gain accepts *)

\* exactly the letter S followed by two decimal digits that name 1-indexed
\* ports
ExactLabelForm(s_param) ==
    /\ Len(s_param) = 3
    /\ s_param[1] = "S"
    /\ IsDigit(s_param[2]) /\ DigitVal(s_param[2]) >= 1
    /\ IsDigit(s_param[3]) /\ DigitVal(s_param[3]) >= 1

\* C18: calculate_gain fails with ValueError for every label that is not
\* exactly the letter S followed by two decimal digits naming 1-indexed
\* ports, and returns a gain array only for labels of that exact form.
\* The code does not behave so: re.match accepts any label that starts with
\* S and two digits, and the digit 0 becomes the index -1, the last port.
C18_Original ==
    Applied("calculate_gain")
    => /\ ~ExactLabelForm(Val(op).s_param) => Val(ret).tag = "ValueError"
       /\ Val(ret).tag = "ok" => ExactLabelForm(Val(op).s_param)

\* a label with trailing text is read as its first three characters
C18_TrailingTextAccepted ==
    /\ Applied("calculate_gain")
    /\ Val(op).s_param = <<"S", "2", "1", "1">>
    /\ Val(op).net.nports = 2
    /\ Val(ret) = calculate_gain(Val(op).net, <<"S", "2", "1">>)
    /\ Val(ret).tag = "ok"

\* the digit 0 selects the last port of the network
C18_PortZeroWraps ==
    /\ Applied("calculate_gain")
    /\ Val(op).s_param = <<"S", "0", "1">>
    /\ Val(op).net.nports = 2
    /\ Val(op).net.f # <<>>
    /\ Val(ret) = calculate_gain(Val(op).net, <<"S", "2", "1">>)
    /\ Val(ret).tag = "ok"

\* a label whose first three characters are not S and two digits raises
\* ValueError; a digit beyond the port count raises IndexError
C18_RejectedLabels ==
    Applied("calculate_gain")
    => LET l == Val(op).s_param
           shaped == /\ Len(l) >= 3
                     /\ l[1] = "S"
                     /\ IsDigit(l[2])
                     /\ IsDigit(l[3])
       IN /\ ~shaped <=> Val(ret).tag = "ValueError"
          /\ (shaped /\ (DigitVal(l[2]) > Val(op).net.nports
                          \/ DigitVal(l[3]) > Val(op).net.nports))
             <=> Val(ret).tag = "IndexError"

----------------------------------------------------------------------------
(* C19, under SpecRepeat: evaluate_compliance neither changes its inputs
   nor remembers the calls before *)

----------------------------------------------------------------------------
(* Specification of DeviceService over the criteria and result tables *)

MaxCriteriaRows == 2     \* criterion ids that can be stored

MaxStoredResults == 2    \* rows the test_results table can hold

CriteriaIds == 1..MaxCriteriaRows

\* max_value of a criterion handed to the service
CriteriaValues == {1, 2}

\* TestCriteria objects handed to the service
ServiceCriteria == [id : CriteriaIds, max_value : CriteriaValues]

\* where sqlite3 fails during a call: nowhere, in the criteria UPDATE or in
\* the UPDATE that marks results
Faults == {"none", "update", "mark"}

\* TestCriteriaRepository.get_by_id
get_by_id(rows, id) == IF id \in DOMAIN rows THEN Some(rows[id]) ELSE None

\* the UPDATE test_criteria ... WHERE id = ? of TestCriteriaRepository.update
criteria_repo_update(rows, criteria) ==
    [rows EXCEPT ![criteria.id] = criteria.max_value]

\* variant: UPDATE test_results SET is_stale = 1, without the WHERE clause
mark_as_stale_by_criteria_AllRows(rows, criteria_id) ==
    [k \in DOMAIN rows |-> [rows[k] EXCEPT !.is_stale = TRUE]]

\* UPDATE test_results SET is_stale = 1 WHERE test_criteria_id = ?
mark_as_stale_by_criteria(rows, criteria_id) ==
    [k \in DOMAIN rows |->
        IF rows[k].test_criteria_id = criteria_id
        THEN [rows[k] EXCEPT !.is_stale = TRUE]
        ELSE rows[k]]

\* the outcome of a service call: the two tables after it and what the
\* caller gets
ServiceOutcome(criteria_rows, result_rows, out) ==
    [criteriaRows |-> criteria_rows, resultRows |-> result_rows, ret |-> out]

\* the second half of update_criteria: if self.result_repo:
\* self.result_repo.mark_as_stale_by_criteria(criteria.id); return updated
MarkAndReturn(updated_rows, result_rows, result_repo, criteria, fault) ==
    IF ~result_repo
    THEN ServiceOutcome(updated_rows, result_rows, Ok(criteria))
    ELSE IF fault = "mark"
    THEN ServiceOutcome(updated_rows, result_rows, Err("DatabaseError"))
    ELSE ServiceOutcome(updated_rows,
                        mark_as_stale_by_criteria(result_rows, criteria.id),
                        Ok(criteria))

\* DeviceService.update_criteria: criteria_repo.update raises
\* TestCriteriaError for an unknown id and DatabaseError (after a rollback)
\* when sqlite3 fails; the criteria UPDATE is committed before the results
\* are marked
update_criteria(criteria_rows, result_rows, result_repo, criteria, fault) ==
    IF IsNone(get_by_id(criteria_rows, criteria.id))
    THEN ServiceOutcome(criteria_rows, result_rows, Err("TestCriteriaError"))
    ELSE IF fault = "update"
    THEN ServiceOutcome(criteria_rows, result_rows, Err("DatabaseError"))
    ELSE MarkAndReturn(criteria_repo_update(criteria_rows, criteria),
                       result_rows, result_repo, criteria, fault)

\* DeviceService(...) is constructed with or without a result repository,
\* on empty tables
InitService ==
    /\ EngineIdle
    /\ CriteriaIdle
    /\ FnIdle
    /\ criteriaRows = <<>>
    /\ resultRows = <<>>
    /\ resultRepo \in BOOLEAN

\* DeviceService.add_criteria(criteria): INSERT INTO test_criteria; an id
\* already stored violates the primary key
AddCriteria(criteria) ==
    /\ op' = Some([name |-> "add_criteria", criteria |-> criteria])
    /\ IF criteria.id \in DOMAIN criteriaRows
       THEN /\ ret' = Some(Err("DatabaseError"))
            /\ UNCHANGED criteriaRows
       ELSE /\ ret' = Some(Ok(criteria))
            /\ criteriaRows' = [id \in DOMAIN criteriaRows \cup {criteria.id} |->
                                  IF id = criteria.id THEN criteria.max_value
                                  ELSE criteriaRows[id]]
    /\ UNCHANGED <<engineVars, criteriaVars, resultRows, resultRepo>>

\* TestResultRepository.create(result) for a result of a stored criterion;
\* a new TestResult has is_stale False
CreateResult(test_criteria_id) ==
    /\ Len(resultRows) < MaxStoredResults
    /\ test_criteria_id \in DOMAIN criteriaRows
    /\ op' = Some([name |-> "create", test_criteria_id |-> test_criteria_id])
    /\ ret' = None
    /\ resultRows' = Append(resultRows,
                            [test_criteria_id |-> test_criteria_id,
                             is_stale |-> FALSE])
    /\ UNCHANGED <<engineVars, criteriaVars, criteriaRows, resultRepo>>

\* service.update_criteria(criteria)
UpdateCriteria(criteria, fault) ==
    /\ op' = Some([name |-> "update_criteria", criteria |-> criteria])
    /\ ret' = Some(update_criteria(criteriaRows, resultRows, resultRepo,
                                   criteria, fault).ret)
    /\ criteriaRows' = update_criteria(criteriaRows, resultRows, resultRepo,
                                       criteria, fault).criteriaRows
    /\ resultRows' = update_criteria(criteriaRows, resultRows, resultRepo,
                                     criteria, fault).resultRows
    /\ UNCHANGED <<engineVars, criteriaVars, resultRepo>>

NextService ==
    \/ \E criteria \in ServiceCriteria : AddCriteria(criteria)
    \/ \E test_criteria_id \in CriteriaIds : CreateResult(test_criteria_id)
    \/ \E criteria \in ServiceCriteria, fault \in Faults :
          UpdateCriteria(criteria, fault)

SpecService == InitService /\ [][NextService]_vars

----------------------------------------------------------------------------
(* C20: updating a criterion marks its stored results stale *)

\* the step is a call of update_criteria that returns, on a service that
\* has a result repository
UpdateReturns ==
    /\ resultRepo
    /\ ~IsNone(op')
    /\ Val(op').name = "update_criteria"
    /\ Val(ret').tag = "ok"

\* C20: after DeviceService.update_criteria(c) returns, with a result
\* repository configured, every stored result whose test_criteria_id is c.id
\* has is_stale True, and the results of other criteria are as they were.
C20_UpdateMarksStale ==
    [][UpdateReturns
       => /\ Len(resultRows') = Len(resultRows)
          /\ \A k \in 1..Len(resultRows) :
                IF resultRows[k].test_criteria_id = Val(op').criteria.id
                THEN /\ resultRows'[k].is_stale
                     /\ resultRows'[k].test_criteria_id
                           = resultRows[k].test_criteria_id
                ELSE resultRows'[k] = resultRows[k]]_vars

\* update_criteria has returned for criterion 1: its stored result is
\* stale, the result of criterion 2 is not
C20_Witness ==
    /\ resultRepo
    /\ Applied("update_criteria")
    /\ Val(ret).tag = "ok"
    /\ Val(op).criteria.id = 1
    /\ Len(resultRows) = 2
    /\ \E k \in 1..2 : /\ resultRows[k].test_criteria_id = 1
                       /\ resultRows[k].is_stale
    /\ \E k \in 1..2 : /\ resultRows[k].test_criteria_id = 2
                       /\ ~resultRows[k].is_stale

----------------------------------------------------------------------------
(* Specification of ComplianceService and ComplianceEvaluationWorker over
   the criteria and result tables *)

MaxServiceEvals == 2     \* ComplianceService.evaluate_compliance calls

Stages == {"SIT", "BBU"}

\* test_stage arguments; "" stands for a stage that is None or empty
StageArgs == Stages \cup {""}

\* device.operational_freq_min, device.operational_freq_max
DeviceBand == <<1, 2>>

\* the devices of a session: one with a port listed twice
ServiceDevices ==
    {[input_ports |-> <<1>>, output_ports |-> <<2>>],
     [input_ports |-> <<1, 1>>, output_ports |-> <<2>>]}

\* the measurements of a session: two with data, one without
ServiceMeasurement(id) ==
    [id |-> id,
     touchstone_data |-> IF id = 3 THEN None
                         ELSE Some(MakeNetwork(2, <<2, 6, 10>>, id - 1))]

\* the measurement lists handed to a worker
MeasurementLists ==
    {<<ServiceMeasurement(1)>>,
     <<ServiceMeasurement(1), ServiceMeasurement(2)>>,
     <<ServiceMeasurement(2), ServiceMeasurement(3)>>}

\* the stored criteria of the device: two of stage SIT, one of stage BBU
StoredCriteria ==
    [id \in 1..3 |->
        [test_stage |-> IF id = 3 THEN "BBU" ELSE "SIT",
         criteria |->
            Instance([requirement_name |-> IF id = 2 THEN NameVswrMax
                                           ELSE NameGainRange,
                      criteria_type |-> "max",
                      min_value |-> None,
                      max_value |-> Some(IF id = 3 THEN 20 ELSE 60),
                      frequency_min |-> None,
                      frequency_max |-> None], id)]]

\* s[::-1]
Reverse(s) == [k \in 1..Len(s) |-> s[Len(s) + 1 - k]]

\* TestResultRepository.get_by_measurement_id: the rows of the measurement,
\* newest first
get_by_measurement_id(rows, measurement_id) ==
    Reverse(SelectSeq(rows, LAMBDA r : r.measurement_id = measurement_id))

\* ORDER BY requirement_name on a list of criteria
RECURSIVE InsertByName(_, _)
InsertByName(c, s) ==
    IF s = <<>> THEN <<c>>
    ELSE IF StrLess(c.requirement_name, Head(s).requirement_name)
    THEN <<c>> \o s
    ELSE <<Head(s)>> \o InsertByName(c, Tail(s))

RECURSIVE OrderByName(_)
OrderByName(s) ==
    IF s = <<>> THEN <<>> ELSE InsertByName(Head(s), OrderByName(Tail(s)))

\* the criteria rows of a stage, as a list in id order
RowsOfStage(criteria_rows, ids, test_stage) ==
    SelectSeq([k \in 1..Len(ids) |-> criteria_rows[ids[k]]],
              LAMBDA row : row.test_stage = test_stage)

\* TestCriteriaRepository.get_by_device_and_test: the criteria of the
\* device's stage ordered by requirement_name
get_by_device_and_test(criteria_rows, test_stage) ==
    OrderByName([k \in 1..Len(RowsOfStage(criteria_rows,
                                 SortedInts(DOMAIN criteria_rows), test_stage)) |->
                   RowsOfStage(criteria_rows, SortedInts(DOMAIN criteria_rows),
                               test_stage)[k].criteria])

\* ComplianceService.evaluate_compliance(measurement, device, test_stage):
\* without criteria nothing is evaluated
service_evaluate(criteria, meas, dev, callNo) ==
    IF criteria = <<>> THEN [raised |-> "none", results |-> <<>>]
    ELSE evaluate_compliance(meas, dev, criteria, DeviceBand[1],
                             DeviceBand[2], callNo)

\* get_compliance_results without the is_stale test
get_compliance_results_KeepsStale(criteria_rows, result_rows, measurement_id, test_stage) ==
    SelectSeq(get_by_measurement_id(result_rows, measurement_id),
              LAMBDA r :
                 test_stage # ""
                 => /\ r.test_criteria_id \in DOMAIN criteria_rows
                    /\ criteria_rows[r.test_criteria_id].test_stage
                          = test_stage)

\* ComplianceService.get_compliance_results: stale results are left out;
\* with a stage, only results whose criterion exists and has that stage
get_compliance_results(criteria_rows, result_rows, measurement_id, test_stage) ==
    SelectSeq(get_by_measurement_id(result_rows, measurement_id),
              LAMBDA r :
                 /\ ~r.is_stale
                 /\ test_stage # ""
                    => /\ r.test_criteria_id \in DOMAIN criteria_rows
                       /\ criteria_rows[r.test_criteria_id].test_stage
                             = test_stage)

\* result_repo.delete(result.id) for each result of a list
DeleteEach(result_rows, result_list) ==
    SelectSeq(result_rows,
              LAMBDA r : \A k \in 1..Len(result_list) :
                            result_list[k].id # r.id)

\* variant: nothing is deleted
delete_results_for_measurement_and_stage_Keeps(criteria_rows, result_rows, measurement_id, test_stage) ==
    result_rows

\* ComplianceService.delete_results_for_measurement_and_stage
delete_results_for_measurement_and_stage(criteria_rows, result_rows, measurement_id, test_stage) ==
    DeleteEach(result_rows,
               get_compliance_results(criteria_rows, result_rows,
                                      measurement_id, test_stage))

\* ComplianceService.save_test_results: result_repo.create for each result
save_test_results(result_rows, result_list) == result_rows \o result_list

\* get_overall_pass_status over the results that are not stale
get_overall_pass_status_FreshOnly(result_rows, measurement_id) ==
    \A k \in 1..Len(result_rows) :
        (result_rows[k].measurement_id = measurement_id
         /\ ~result_rows[k].is_stale) => result_rows[k].passed

\* ComplianceService.get_overall_pass_status
get_overall_pass_status(result_rows, measurement_id) ==
    IF get_by_measurement_id(result_rows, measurement_id) = <<>> THEN TRUE
    ELSE \A k \in 1..Len(get_by_measurement_id(result_rows, measurement_id)) :
            get_by_measurement_id(result_rows, measurement_id)[k].passed

\* what a call hands back to its caller, one field per kind of value: tag
\* is "ok" or the exception, by_measurement the worker's
\* results_by_measurement, results a returned list of results, status a
\* returned bool; the fields a call does not return stay at their defaults
Reply(tag, by_measurement, result_list, status) ==
    [tag |-> tag, by_measurement |-> by_measurement,
     results |-> result_list, status |-> status]

\* what a worker run leaves: the result table, the evaluate_compliance calls
\* made so far, and the signal emitted (evaluation_complete with
\* results_by_measurement, or error_occurred)
RunOutcome(result_rows, calls, signal) ==
    [resultRows |-> result_rows, evalCount |-> calls, ret |-> signal]

\* results_by_measurement[measurement.id] = results
Assign(by_measurement, id, result_list) ==
    [k \in DOMAIN by_measurement \cup {id} |->
        IF k = id THEN result_list ELSE by_measurement[k]]

\* the body of the worker's loop for measurements[k] and the iterations
\* after it: delete the stage's results, evaluate, save what was returned
RECURSIVE RunLoop(_, _, _, _, _, _, _, _)
RunSave(criteria_rows, cleared_rows, measurements, k, dev, test_stage, calls, by_measurement, out) ==
    IF out.raised # "none"
    THEN RunOutcome(cleared_rows, calls + 1,
                    Reply(out.raised, <<>>, <<>>, FALSE))
    ELSE RunLoop(criteria_rows,
                 IF out.results # <<>>
                 THEN save_test_results(cleared_rows, out.results)
                 ELSE cleared_rows,
                 measurements, k + 1, dev, test_stage, calls + 1,
                 Assign(by_measurement, measurements[k].id, out.results))

RunLoop(criteria_rows, result_rows, measurements, k, dev, test_stage, calls, by_measurement) ==
    IF k > Len(measurements)
    THEN RunOutcome(result_rows, calls,
                    Reply("ok", by_measurement, <<>>, FALSE))
    ELSE RunSave(criteria_rows,
                 delete_results_for_measurement_and_stage(
                     criteria_rows, result_rows, measurements[k].id,
                     test_stage),
                 measurements, k, dev, test_stage, calls, by_measurement,
                 service_evaluate(
                     get_by_device_and_test(criteria_rows, test_stage),
                     measurements[k], dev, calls + 1))

\* ComplianceEvaluationWorker.run
run(criteria_rows, result_rows, measurements, dev, test_stage, calls) ==
    RunLoop(criteria_rows, result_rows, measurements, 1, dev, test_stage,
            calls, <<>>)

\* a session: the device and its stored criteria; no result is stored
InitCompliance ==
    /\ measurement = [id |-> MeasurementId, touchstone_data |-> None]
    /\ device \in ServiceDevices
    /\ call = [test_criteria |-> <<>>, band |-> DeviceBand]
    /\ results = <<>>
    /\ raised = "none"
    /\ evalCount = 0
    /\ CriteriaIdle
    /\ FnIdle
    /\ criteriaRows = StoredCriteria
    /\ resultRows = <<>>
    /\ resultRepo = TRUE

\* a ComplianceEvaluationWorker for the stage runs to its end
WorkerRun(measurements, test_stage) ==
    /\ evalCount + Len(measurements) <= MaxServiceEvals
    /\ op' = Some([name |-> "run", measurements |-> measurements,
                   test_stage |-> test_stage])
    /\ resultRows' = run(criteriaRows, resultRows, measurements, device,
                         test_stage, evalCount).resultRows
    /\ evalCount' = run(criteriaRows, resultRows, measurements, device,
                        test_stage, evalCount).evalCount
    /\ ret' = Some(run(criteriaRows, resultRows, measurements, device,
                       test_stage, evalCount).ret)
    /\ UNCHANGED <<measurement, device, call, results, raised, criteriaVars,
                   criteriaRows, resultRepo>>

\* FileLoadingWorker.run after the files are loaded: evaluate_compliance
\* and save_test_results for a measurement, without deleting first
EvaluateAndSave(meas, test_stage) ==
    /\ evalCount < MaxServiceEvals
    /\ service_evaluate(get_by_device_and_test(criteriaRows, test_stage),
                        meas, device, evalCount + 1).raised = "none"
    /\ op' = Some([name |-> "save_test_results", measurement_id |-> meas.id,
                   test_stage |-> test_stage])
    /\ ret' = Some(Reply("ok", <<>>,
                         service_evaluate(
                             get_by_device_and_test(criteriaRows, test_stage),
                             meas, device, evalCount + 1).results,
                         FALSE))
    /\ resultRows' = save_test_results(resultRows,
                         service_evaluate(
                             get_by_device_and_test(criteriaRows, test_stage),
                             meas, device, evalCount + 1).results)
    /\ evalCount' = evalCount + 1
    /\ UNCHANGED <<measurement, device, call, results, raised, criteriaVars,
                   criteriaRows, resultRepo>>

\* ComplianceService.mark_results_stale_for_criteria(criteria_id)
MarkResultsStale(criteria_id) ==
    /\ op' = Some([name |-> "mark_results_stale_for_criteria",
                   criteria_id |-> criteria_id])
    /\ ret' = None
    /\ resultRows' = mark_as_stale_by_criteria(resultRows, criteria_id)
    /\ UNCHANGED <<engineVars, criteriaVars, criteriaRows, resultRepo>>

\* ComplianceService.delete_results_for_measurement_and_stage
DeleteResults(measurement_id, test_stage) ==
    /\ op' = Some([name |-> "delete_results_for_measurement_and_stage",
                   measurement_id |-> measurement_id,
                   test_stage |-> test_stage])
    /\ ret' = None
    /\ resultRows' = delete_results_for_measurement_and_stage(
                         criteriaRows, resultRows, measurement_id, test_stage)
    /\ UNCHANGED <<engineVars, criteriaVars, criteriaRows, resultRepo>>

\* ComplianceService.get_compliance_results(measurement_id, test_stage)
GetComplianceResults(measurement_id, test_stage) ==
    /\ op' = Some([name |-> "get_compliance_results",
                   measurement_id |-> measurement_id,
                   test_stage |-> test_stage])
    /\ ret' = Some(Reply("ok", <<>>,
                         get_compliance_results(criteriaRows, resultRows,
                                                measurement_id, test_stage),
                         FALSE))
    /\ UNCHANGED <<engineVars, criteriaVars, serviceVars>>

\* ComplianceService.get_overall_pass_status(measurement_id)
GetOverallPassStatus(measurement_id) ==
    /\ op' = Some([name |-> "get_overall_pass_status",
                   measurement_id |-> measurement_id])
    /\ ret' = Some(Reply("ok", <<>>, <<>>,
                         get_overall_pass_status(resultRows, measurement_id)))
    /\ UNCHANGED <<engineVars, criteriaVars, serviceVars>>

NextCompliance ==
    \/ \E measurements \in MeasurementLists, test_stage \in StageArgs :
          WorkerRun(measurements, test_stage)
    \/ \E id \in 1..2, test_stage \in Stages :
          EvaluateAndSave(ServiceMeasurement(id), test_stage)
    \/ \E criteria_id \in DOMAIN StoredCriteria :
          MarkResultsStale(criteria_id)
    \/ \E id \in 1..2, test_stage \in StageArgs :
          DeleteResults(id, test_stage)
    \/ \E id \in 1..2, test_stage \in StageArgs :
          GetComplianceResults(id, test_stage)
    \/ \E id \in 1..2 : GetOverallPassStatus(id)

SpecCompliance == InitCompliance /\ [][NextCompliance]_vars

----------------------------------------------------------------------------
(* C21: what delete_results_for_measurement_and_stage leaves behind *)

\* the service call named `name` was the last call made
LastCall(name) == ~IsNone(op) /\ Val(op).name = name

\* the stored results of a measurement whose criterion has the stage
StoredFor(measurement_id, test_stage) ==
    {k \in 1..Len(resultRows) :
        /\ resultRows[k].measurement_id = measurement_id
        /\ resultRows[k].test_criteria_id \in DOMAIN criteriaRows
        /\ criteriaRows[resultRows[k].test_criteria_id].test_stage
              = test_stage}

\* C21: after delete_results_for_measurement_and_stage(m, stage) returns, no
\* stored result of measurement m whose criterion has test stage `stage`
\* remains.
\* The code does not behave so: the results to delete are taken from
\* get_compliance_results, which leaves out the stale ones.
C21_Original ==
    LastCall("delete_results_for_measurement_and_stage")
    => StoredFor(Val(op).measurement_id, Val(op).test_stage) = {}

\* what does hold: no result of the measurement and stage that is not stale
\* remains
C21_FreshRemoved ==
    LastCall("delete_results_for_measurement_and_stage")
    => \A k \in StoredFor(Val(op).measurement_id, Val(op).test_stage) :
          resultRows[k].is_stale

\* a stale result of the measurement and stage is still stored after the
\* deletion
C21_StaleSurvives ==
    /\ LastCall("delete_results_for_measurement_and_stage")
    /\ Val(op).measurement_id = 1
    /\ Val(op).test_stage = "SIT"
    /\ \E k \in StoredFor(1, "SIT") : resultRows[k].is_stale

----------------------------------------------------------------------------
(* C22: what save_test_results does to results already stored *)

\* the stored row is a result of a measurement and criterion that the list
\* saved last also has a result for
SavedAgain(row) ==
    \E j \in 1..Len(Val(ret).results) :
        /\ Val(ret).results[j].measurement_id = row.measurement_id
        /\ Val(ret).results[j].test_criteria_id = row.test_criteria_id

\* the stored row is one of the results saved last
SavedLast(row) == \E j \in 1..Len(Val(ret).results) : Val(ret).results[j] = row

\* C22: after save_test_results(results), for every measurement and
\* criterion that `results` has a result for, only the new results are
\* stored: the results stored before for that measurement and criterion
\* have been overwritten.
\* The code does not behave so: every result is inserted as a new row under
\* its own id, and no stored row is removed or updated.
C22_Original ==
    LastCall("save_test_results")
    => \A k \in 1..Len(resultRows) :
          SavedAgain(resultRows[k]) => SavedLast(resultRows[k])

\* what does hold: the saved results are the last rows of the table
C22_Appended ==
    LastCall("save_test_results")
    => /\ Len(Val(ret).results) <= Len(resultRows)
       /\ SubSeq(resultRows, Len(resultRows) - Len(Val(ret).results) + 1,
                 Len(resultRows)) = Val(ret).results

\* an older result of the same measurement and criterion is still stored
\* after the save
C22_OldRemains ==
    /\ LastCall("save_test_results")
    /\ \E k \in 1..Len(resultRows) :
          /\ SavedAgain(resultRows[k])
          /\ ~SavedLast(resultRows[k])
          /\ ~resultRows[k].is_stale

----------------------------------------------------------------------------
(* C23: what get_compliance_results returns *)

\* the stored results of the measurement that are not stale and, when a
\* stage is given, whose criterion exists and has the stage
FreshFor(measurement_id, test_stage) ==
    {k \in 1..Len(resultRows) :
        /\ resultRows[k].measurement_id = measurement_id
        /\ ~resultRows[k].is_stale
        /\ test_stage # "" => k \in StoredFor(measurement_id, test_stage)}

\* C23: get_compliance_results(m, stage) returns no stale result; it
\* returns exactly the stored results of m that are not stale, each once,
\* and with a stage only those whose criterion exists and has the stage.
C23_FreshResultsOfStage ==
    LastCall("get_compliance_results")
    => /\ \A j \in 1..Len(Val(ret).results) : ~Val(ret).results[j].is_stale
       /\ Range(Val(ret).results)
             = {resultRows[k] :
                  k \in FreshFor(Val(op).measurement_id, Val(op).test_stage)}
       /\ Len(Val(ret).results)
             = Cardinality(FreshFor(Val(op).measurement_id,
                                    Val(op).test_stage))

\* a query for a stage while the measurement has a stale result of the
\* stage, a fresh one of the stage and a fresh one of the other stage
C23_Witness ==
    /\ LastCall("get_compliance_results")
    /\ Val(op).measurement_id = 1
    /\ Val(op).test_stage = "SIT"
    /\ Val(ret).results # <<>>
    /\ \E k \in StoredFor(1, "SIT") : resultRows[k].is_stale
    /\ \E k \in StoredFor(1, "BBU") : ~resultRows[k].is_stale

----------------------------------------------------------------------------
(* C24: the overall status of a measurement *)

\* the stored results of a measurement, stale or not
StoredOf(measurement_id) ==
    {k \in 1..Len(resultRows) :
        resultRows[k].measurement_id = measurement_id}

\* C24: get_overall_pass_status(m) is True exactly when every result
\* stored for m passed: False when one stored result failed, True when
\* none is stored.
C24_AllStoredPassed ==
    LastCall("get_overall_pass_status")
    => Val(ret).status = (\A k \in StoredOf(Val(op).measurement_id) :
                             resultRows[k].passed)

\* the status is False because of a stored result that failed and is
\* stale, while the results that are not stale passed
C24_Witness ==
    /\ LastCall("get_overall_pass_status")
    /\ Val(ret).status = FALSE
    /\ \E k \in StoredOf(Val(op).measurement_id) :
          ~resultRows[k].passed /\ resultRows[k].is_stale
    /\ \A k \in StoredOf(Val(op).measurement_id) :
          ~resultRows[k].is_stale => resultRows[k].passed

\* the status is True while nothing is stored for the measurement
C24_NoneStored ==
    /\ LastCall("get_overall_pass_status")
    /\ Val(ret).status = TRUE
    /\ StoredOf(Val(op).measurement_id) = {}

----------------------------------------------------------------------------
(* Specification of evaluate_compliance over lists of criteria *)

\* the two-port device with a list of one or of two criteria, on every
\* measurement
InitLists ==
    \/ \E d \in PairDevices, a \in PairCriteria, m \in Measurements :
          Start(d, <<Instance(a, 1)>>, <<1, 2>>, m)
    \/ \E d \in PairDevices, a \in PairCriteria, b \in PairCriteria,
           m \in Measurements :
          Start(d, <<Instance(a, 1), Instance(b, 2)>>, <<1, 2>>, m)

SpecLists == InitLists /\ [][Next]_vars

----------------------------------------------------------------------------
(* C25: precedence of the criterion families *)

\* the family the precedence gives a criterion: gain and range, else
\* flatness, else vswr, else a band
FamilyByPrecedence(c) ==
    IF NameHas(c, StrGain) /\ NameHas(c, StrRange) THEN "gain_range"
    ELSE IF NameHas(c, StrFlatness) THEN "flatness"
    ELSE IF NameHas(c, StrVswr) THEN "vswr"
    ELSE IF HasBand(c) THEN "oob"
    ELSE "none"

\* result r carries a label and the measured value of the family for
\* criterion c
InFamily(family, c, r) ==
    CASE family = "gain_range" ->
           /\ Val(r.s_parameter) \in {GainPairLabel(pr) : pr \in GainPairs}
           /\ r.measured_value
                 = Some(Metrics(Net, call.band[1], call.band[2])
                            [<<Val(r.s_parameter), "Gain Range">>].max)
      [] family = "flatness" ->
           /\ Val(r.s_parameter) \in {GainPairLabel(pr) : pr \in GainPairs}
           /\ r.measured_value
                 = Some(Metrics(Net, call.band[1], call.band[2])
                            [<<Val(r.s_parameter), "Flatness">>])
      [] family = "vswr" ->
           /\ Val(r.s_parameter) \in {PortLabel(p, p) : p \in VswrPorts}
           /\ r.measured_value
                 = Some(Metrics(Net, call.band[1], call.band[2])
                            [<<Val(r.s_parameter), "VSWR">>])
      [] family = "oob" ->
           /\ Val(r.s_parameter) \in {GainPairLabel(pr) : pr \in GainPairs}
           /\ r.measured_value = Some(RejectionOf(c, Val(r.s_parameter)))
      [] OTHER -> FALSE

\* C25: every result of a criterion is a result of the family that the
\* precedence on its lower-cased name gives it (gain and range, else
\* flatness, else vswr, else a band): it carries a label of that family and
\* that family's measured value. A criterion with a band is evaluated as
\* out-of-band only when its name matches none of the three patterns.
C25_ClassificationPrecedence ==
    (Called /\ HasData)
    => \A ci \in CriterionIndices : \A k \in ResultIndices :
          results[k].test_criteria_id = call.test_criteria[ci].id
          => InFamily(FamilyByPrecedence(call.test_criteria[ci]),
                      call.test_criteria[ci], results[k])

\* a criterion with a band whose name holds "range", "vswr" and "gain":
\* its result is the gain range of S21, which differs from the rejection of
\* the band
C25_Witness ==
    /\ Called /\ HasData /\ SingleCriterion
    /\ TheCriterion.requirement_name = NameMixed
    /\ HasBand(TheCriterion)
    /\ Len(results) = 1
    /\ results[1].s_parameter = Some(PortLabel(2, 1))
    /\ InFamily("gain_range", TheCriterion, results[1])
    /\ ~InFamily("oob", TheCriterion, results[1])
    /\ ~InFamily("flatness", TheCriterion, results[1])

----------------------------------------------------------------------------
(* C26: the order of the bounds *)

\* C26: filter_frequency_range(network, a, b) returns the frequency points
\* and the values that filter_frequency_range(network, b, a) returns.
C26_BoundsSymmetric ==
    Applied("filter_frequency_range")
    => /\ Val(ret).f
            = filter_frequency_range(Val(op).net, Val(op).freq_max,
                                     Val(op).freq_min).f
       /\ Val(ret).s
            = filter_frequency_range(Val(op).net, Val(op).freq_max,
                                     Val(op).freq_min).s

\* bounds given in descending order, both inside the measured span: the
\* window from 3 GHz to 5 GHz is returned
C26_Witness ==
    /\ Applied("filter_frequency_range")
    /\ Val(op).freq_min = 5
    /\ Val(op).freq_max = 3
    /\ Val(op).net.f = <<2, 6, 10>>
    /\ Val(ret).f = <<6, 10>>

----------------------------------------------------------------------------
(* C27: evaluate_compliance over a list of criteria *)

\* the results, without ids, of the call made with criterion ci alone
AloneResults(ci) ==
    NoIds(evaluate_compliance(measurement, device, <<call.test_criteria[ci]>>,
                              call.band[1], call.band[2], 1).results)

\* the results of criteria ci, ci + 1, ... each evaluated alone, in list
\* order
RECURSIVE AloneFrom(_)
AloneFrom(ci) ==
    IF ci > Len(call.test_criteria) THEN <<>>
    ELSE AloneResults(ci) \o AloneFrom(ci + 1)

\* C27: the results of evaluate_compliance for [c1, ..., cn] are, up to the
\* result ids, the results for [c1], ..., [cn] one after the other in list
\* order, and the results of one criterion follow the sorted order of their
\* labels.
C27_Compositional ==
    (Called /\ raised = "none")
    => /\ NoIds(results) = AloneFrom(1)
       /\ \A j, k \in ResultIndices :
             (j < k /\ results[j].test_criteria_id = results[k].test_criteria_id)
             => ~StrLess(Val(results[k].s_parameter),
                         Val(results[j].s_parameter))

\* two criteria that both have results: the results of the first come
\* first, and the second has its two labels in sorted order
C27_Witness ==
    /\ Called /\ HasData
    /\ Len(call.test_criteria) = 2
    /\ AloneResults(1) # <<>>
    /\ Len(AloneResults(2)) = 2
    /\ Len(results) = Len(AloneResults(1)) + 2
    /\ results[1].test_criteria_id = call.test_criteria[1].id
    /\ results[Len(results)].test_criteria_id = call.test_criteria[2].id
    /\ StrLess(Val(results[Len(results) - 1].s_parameter),
               Val(results[Len(results)].s_parameter))

----------------------------------------------------------------------------
(* C28: what is stored after a worker run *)

\* a ComplianceEvaluationWorker run for a stage has emitted
\* evaluation_complete
RunCompleted ==
    /\ LastCall("run")
    /\ Val(op).test_stage \in Stages
    /\ Val(ret).tag = "ok"

\* the stored results of the measurement that are not stale and whose
\* criterion has the stage, in table order
FreshRows(measurement_id, test_stage) ==
    SelectSeq(resultRows,
              LAMBDA r : /\ r.measurement_id = measurement_id
                         /\ ~r.is_stale
                         /\ r.test_criteria_id \in DOMAIN criteriaRows
                         /\ criteriaRows[r.test_criteria_id].test_stage
                               = test_stage)

\* what the run emitted for the measurement
Emitted(measurement_id) == Val(ret).by_measurement[measurement_id]

\* the measurements of the run have nothing stored but what the run emitted
LastRunStored ==
    \A k \in 1..Len(Val(op).measurements) :
       FreshRows(Val(op).measurements[k].id, Val(op).test_stage)
          = Emitted(Val(op).measurements[k].id)

\* no two results of the list have the same criterion and label
OnePerLabel(rows) ==
    \A j, k \in 1..Len(rows) :
       (rows[j].test_criteria_id = rows[k].test_criteria_id
        /\ rows[j].s_parameter = rows[k].s_parameter) => j = k

\* no port is listed twice in one of the device's port lists
PortsListedOnce ==
    /\ Cardinality(Range(device.input_ports)) = Len(device.input_ports)
    /\ Cardinality(Range(device.output_ports)) = Len(device.output_ports)

C28_TwoPerLabel ==
    /\ RunCompleted
    /\ ~PortsListedOnce
    /\ ~OnePerLabel(FreshRows(Val(op).measurements[1].id,
                              Val(op).test_stage))

----------------------------------------------------------------------------
(* C29: the overall status and the results offered for display *)

\* every result that get_compliance_results returns for the measurement
\* without a stage has passed
DisplayedPassed(measurement_id) ==
    \A k \in FreshFor(measurement_id, "") : resultRows[k].passed

\* C29: whenever every result returned by get_compliance_results(m) without
\* a stage has passed, get_overall_pass_status(m) returns True: a result
\* marked stale does not change the overall status.
\* The code does not behave so: the status is taken over all stored
\* results of the measurement, the stale ones included.
C29_Original ==
    (LastCall("get_overall_pass_status")
     /\ DisplayedPassed(Val(op).measurement_id))
    => Val(ret).status = TRUE

\* what does hold: a status of True means that every displayed result passed
C29_TrueMeansDisplayedPassed ==
    (LastCall("get_overall_pass_status") /\ Val(ret).status = TRUE)
    => DisplayedPassed(Val(op).measurement_id)

\* every displayed result of measurement 1 passed, a stale one failed, and
\* the status is False
C29_StaleFailureCounts ==
    /\ LastCall("get_overall_pass_status")
    /\ Val(op).measurement_id = 1
    /\ FreshFor(1, "") # {}
    /\ DisplayedPassed(1)
    /\ \E k \in StoredOf(1) : resultRows[k].is_stale /\ ~resultRows[k].passed
    /\ Val(ret).status = FALSE

----------------------------------------------------------------------------
(* C30: a range entirely outside the measured span *)

\* both bounds, in GHz, lie below the lowest measured frequency
BelowSpan(net, a, b) ==
    /\ net.f # <<>>
    /\ a * HzPerGHz < MinOfSeq(net.f)
    /\ b * HzPerGHz < MinOfSeq(net.f)

\* both bounds, in GHz, lie above the highest measured frequency
AboveSpan(net, a, b) ==
    /\ net.f # <<>>
    /\ a * HzPerGHz > MaxOfSeq(net.f)
    /\ b * HzPerGHz > MaxOfSeq(net.f)

\* position of the measured point nearest to a range outside the span
NearestEdge(net, a, b) == IF BelowSpan(net, a, b) THEN 1 ELSE Len(net.f)

\* the calculator was applied with a range that lies entirely outside the
\* measured span of the network it was applied to
WindowOutside ==
    /\ Applied("filter_frequency_range")
    /\ \/ BelowSpan(Val(op).net, Val(op).freq_min, Val(op).freq_max)
       \/ AboveSpan(Val(op).net, Val(op).freq_min, Val(op).freq_max)

OobOutside ==
    /\ Applied("calculate_oob_rejection")
    /\ calculate_gain(Val(op).net, Val(op).s_param).tag = "ok"
    /\ \/ BelowSpan(Val(op).net, Val(op).oob_freq_min, Val(op).oob_freq_max)
       \/ AboveSpan(Val(op).net, Val(op).oob_freq_min, Val(op).oob_freq_max)

\* C30: for a range entirely outside the measured span,
\* filter_frequency_range returns one point, the nearest edge of the span
\* with the values measured there; calculate_oob_rejection over such a
\* range raises nothing and returns the lowest in-band gain minus the gain
\* at that edge point.
C30_SingleEdgePoint ==
    /\ WindowOutside
       => /\ Val(ret).f
               = <<Val(op).net.f[NearestEdge(Val(op).net, Val(op).freq_min,
                                             Val(op).freq_max)]>>
          /\ Val(ret).s
               = <<Val(op).net.s[NearestEdge(Val(op).net, Val(op).freq_min,
                                             Val(op).freq_max)]>>
    /\ OobOutside
       => /\ Val(ret).tag = "ok"
          /\ Val(ret).val
               = OobReference.val
                 - calculate_gain(Val(op).net, Val(op).s_param).val[
                       NearestEdge(Val(op).net, Val(op).oob_freq_min,
                                   Val(op).oob_freq_max)]

\* a window from 6 GHz to 7 GHz on a network measured from 1 GHz to 5 GHz:
\* the point at 5 GHz is returned
C30_Witness ==
    /\ WindowOutside
    /\ Val(op).net.f = <<2, 6, 10>>
    /\ Val(op).freq_min = 6
    /\ Val(op).freq_max = 7
    /\ Val(ret).f = <<10>>
    /\ Val(ret).s = <<Val(op).net.s[3]>>

\* the rejection over an out-of-band range above the span has been computed
C30_OobReached ==
    /\ OobOutside
    /\ AboveSpan(Val(op).net, Val(op).oob_freq_min, Val(op).oob_freq_max)
    /\ Val(ret).tag = "ok"

====
